---------------------------- MODULE Spec2Model ----------------------------
(***************************************************************************)
(* A model of obsidian-scatter: the data pipeline (value extraction, point *)
(* building, batch processing, bounds and scales of data.ts), the          *)
(* rendering functions (colours, screen transformation, ticks, axes, grid  *)
(* and chart of render.ts), the render cycle of the view with its resize   *)
(* timer and teardown (scatter-view.ts), and the pointer handlers of the   *)
(* chart (interactions.ts).                                                *)
(*                                                                         *)
(* Conventions.                                                            *)
(*  - A JavaScript string is a sequence of one-character strings, so that  *)
(*    concatenation, trimming and parsing are computed, not assumed.       *)
(*  - A JavaScript number is NaN, +Infinity, -Infinity or a finite value;  *)
(*    a finite value is an exact rational times a power of two.  Of the    *)
(*    rounding of IEEE-754 doubles the model has overflow to an infinity   *)
(*    and the loss of an addend below half a unit in the last place of the *)
(*    other; other sums, products and quotients are exact, and underflow   *)
(*    and subnormal results are left out.                                  *)
(*  - A call either returns or throws: a completion is Normal(v) or        *)
(*    Throw(e), and try/catch is modelled by inspecting the completion.    *)
(*  - A nullable value (string | null, AxisBounds | null) is NULL or       *)
(*    Some(v), so that the empty string and null stay distinct.            *)
(***************************************************************************)
EXTENDS Integers, Sequences, FiniteSets

VARIABLES
  pc,             \* "start", or the name of the call that has returned
  propertyId,     \* extractor call: the property id asked for (nullable)
  numResult,      \* completion of extractNumericValue
  catResult,      \* completion of extractCategoryValue
  entry,          \* extractor and entryToPoint calls: the entry
  config,         \* ScatterConfig {xAxis, yAxis, colorBy}
  pointResult,    \* completion of entryToPoint
  entries,        \* extractDataFromEntries call: the entries, in order
  extraction,     \* completion of extractDataFromEntries
  points,         \* a list of ScatterPoint (input of the batch helpers)
  categories,     \* result of extractCategories
  values,         \* calculateAxisBounds call: the value list
  paddingPercent, \* padding fraction of the bounds calls
  axisBounds,     \* result of calculateAxisBounds
  plotBounds,     \* result of calculatePlotBounds
  scaleDomain,    \* scale calls: [min, max] of the domain
  scaleRange,     \* scale calls: [min, max] of the range
  scaleInput,     \* scale calls: the number handed to the returned function
  scaleOutput,    \* result of createLinearScale(...)(scaleInput)
  inverseOutput,  \* result of createInverseLinearScale(...)(...)
  palette,        \* ColorPalette {fallback, colors}
  colorCategories,\* createCategoryColorMap call: the category list
  colorMap,       \* a Map from category to colour, entries in insertion order
  colorPoint,     \* getPointColor call: the point
  pointColor,     \* result of getPointColor
  renderBounds,   \* PlotBounds {x, y} handed to the renderer
  inner,          \* InnerDimensions {width, height}
  rendered,       \* result of transformPointsToScreen
  tickBounds,     \* generateTicks call: the AxisBounds
  tickCount,      \* generateTicks call: Some(count), NULL when left out
  ticks,          \* result of generateTicks
  viewConfig,     \* the host's view configuration: what config.get yields
  groupedData,    \* the host's data: the groups and their entries
  containerRect,  \* what containerEl.getBoundingClientRect() yields
  containerEl,    \* the children of the view's container element, in order
  cleanup,        \* ScatterPlotView.cleanup: NULL, or the cleanups it runs
  listeners,      \* the listeners attached: [target, type], the target being
                  \* the svg in the container or an svg removed from it
  viewport,       \* ScatterPlotView.viewport
  renderedPoints, \* ScatterPlotView.renderedPoints
  calls,          \* the functions the last onDataUpdated called, in order
  eventConfig,    \* the EventAttachmentConfig of the attached point
                  \* listeners (pointIndex, xLabel, yLabel), NULL when none
  activeTooltip,  \* attachPointEvents: activeTooltip of the same closure
  lastEvent,      \* the last mouse event dispatched and what its handler did
  hostInputs,     \* which inputs the host supplies: see HostInputs
  observing,      \* the ResizeObserver of the view observes the container
  resizeTimeout,  \* ScatterPlotView.resizeTimeout: NULL or Some(timer id)
  timers,         \* the pending timers of window: [id, remaining ms]
  sinceResize     \* since the last resize notification: the ms passed, the
                  \* calls of onDataUpdated by a timer, and whether the
                  \* notification came while a timer was pending (a burst);
                  \* NULL when there was no notification

\* the state of the calls to the data functions of extraction and bounds
dataVars ==
  << propertyId, numResult, catResult, entry, config, pointResult, entries,
     extraction, points, categories, values, paddingPercent, axisBounds,
     plotBounds >>

\* the state of the calls to the scale functions
scaleVars ==
  << scaleDomain, scaleRange, scaleInput, scaleOutput, inverseOutput >>

\* the state of the calls to the rendering functions
renderVars ==
  << palette, colorCategories, colorMap, colorPoint, pointColor,
     renderBounds, inner, rendered, tickBounds, tickCount, ticks >>

\* the state of the view and of its host
viewVars ==
  << viewConfig, groupedData, containerRect, containerEl, cleanup, listeners,
     viewport, renderedPoints, calls, eventConfig, activeTooltip, lastEvent,
     hostInputs >>

\* the state of the resize observer and of its debounce timer
timerVars ==
  << observing, resizeTimeout, timers, sinceResize >>

vars ==
  << pc, dataVars, scaleVars, renderVars, viewVars, timerVars >>

---------------------------------------------------------------------------
(* Bounds of the model *)

\* longest entry list handed to extractDataFromEntries
MaxEntries == 3

\* longest point list handed to extractCategories
MaxPoints == 6

\* longest value list handed to calculateAxisBounds
MaxValues == 3

\* longest category list handed to createCategoryColorMap
MaxCategories == 4

\* longest point list handed to transformPointsToScreen
MaxRendered == 3

\* largest count handed to generateTicks
MaxTicks == 5

\* longest point list whose bounds and rendered points are computed together
MaxPlotted == 2

---------------------------------------------------------------------------
(* Strings *)

\* A nullable value is a sequence of length at most one: NULL, or Some(v)
NULL ==
  <<>>

Some(v) ==
  <<v>>

\* 'Property "'
STR_Property ==
  <<"P","r","o","p","e","r","t","y"," ","\"">>

\* '" is empty'
STR_IsEmpty ==
  <<"\""," ","i","s"," ","e","m","p","t","y">>

\* '" value "'
STR_Value ==
  <<"\""," ","v","a","l","u","e"," ","\"">>

\* '" is not numeric'
STR_IsNotNumeric ==
  <<"\""," ","i","s"," ","n","o","t"," ","n","u","m","e","r","i","c">>

\* '" value is not finite'
STR_ValueIsNotFinite ==
  <<"\""," ","v","a","l","u","e"," ","i","s"," ","n","o","t"," ","f","i","n","i","t","e">>

\* 'Failed to read property "'
STR_FailedToRead ==
  <<"F","a","i","l","e","d"," ","t","o"," ","r","e","a","d"," ","p","r","o","p","e","r","t","y"," ","\"">>

\* '": '
STR_QuoteColon ==
  <<"\"",":"," ">>

\* 'X axis property not configured'
STR_XNotConfigured ==
  <<"X"," ","a","x","i","s"," ","p","r","o","p","e","r","t","y"," ","n","o","t"," ","c","o","n","f","i","g","u","r","e","d">>

\* 'Y axis property not configured'
STR_YNotConfigured ==
  <<"Y"," ","a","x","i","s"," ","p","r","o","p","e","r","t","y"," ","n","o","t"," ","c","o","n","f","i","g","u","r","e","d">>

\* 'Infinity'
STR_Infinity ==
  <<"I","n","f","i","n","i","t","y">>

\* s contains sub as a contiguous substring
Contains(s, sub) ==
  \E i \in 1..(Len(s) - Len(sub) + 1) : SubSeq(s, i, i + Len(sub) - 1) = sub

\* s ends with suffix
EndsWith(s, suffix) ==
  /\ Len(suffix) <= Len(s)
  /\ SubSeq(s, Len(s) - Len(suffix) + 1, Len(s)) = suffix

\* the first position of s holding a character of set cs, 0 when there is none
IndexOf(s, cs) ==
  IF \E i \in 1..Len(s) : s[i] \in cs
    THEN CHOOSE i \in 1..Len(s) : s[i] \in cs /\ \A j \in 1..(i - 1) : s[j] \notin cs
    ELSE 0

---------------------------------------------------------------------------
(* Numbers *)

RECURSIVE GCD(_, _)
GCD(a, b) ==
  IF b = 0 THEN a ELSE GCD(b, a % b)

Abs(n) ==
  IF n < 0 THEN -n ELSE n

RECURSIVE Pow(_, _)
Pow(b, e) ==
  IF e = 0 THEN 1 ELSE b * Pow(b, e - 1)

Sign(n) ==
  IF n > 0 THEN 1 ELSE IF n < 0 THEN -1 ELSE 0

\* the exponent of the largest power of two that divides n > 0
RECURSIVE TwoPower(_)
TwoPower(n) ==
  IF n % 2 = 0 THEN 1 + TwoPower(n \div 2) ELSE 0

\* the finite number sign * (m / q) * 2^e, for m and q positive with no common
\* factor, with the powers of two of m and q moved into the exponent
OddParts(sign, m, q, e) ==
  [k |-> "fin",
   n |-> sign * (m \div Pow(2, TwoPower(m))),
   d |-> q \div Pow(2, TwoPower(q)),
   e |-> e + TwoPower(m) - TwoPower(q)]

\* the finite number (n / d) * 2^e (d /= 0) in its one normal form: n / d in
\* lowest terms, n and d odd, d positive; zero is 0 / 1 * 2^0
Scaled(n, d, e) ==
  IF n = 0 THEN [k |-> "fin", n |-> 0, d |-> 1, e |-> 0]
  ELSE OddParts(Sign(n) * Sign(d),
                Abs(n) \div GCD(Abs(n), Abs(d)),
                Abs(d) \div GCD(Abs(n), Abs(d)), e)

\* the finite number n/d
Fin(n, d) ==
  Scaled(n, d, 0)

Whole(n) ==
  Fin(n, 1)

NaN ==
  [k |-> "nan", n |-> 0, d |-> 1, e |-> 0]

PosInfinity ==
  [k |-> "inf", n |-> 1, d |-> 1, e |-> 0]

NegInfinity ==
  [k |-> "inf", n |-> -1, d |-> 1, e |-> 0]

\* Number.isNaN
IsNaN(a) ==
  a.k = "nan"

\* Number.isFinite
IsFinite(a) ==
  a.k = "fin"

\* x / 2^m rounded down, for x >= 0 below 2^31
ShiftRight(x, m) ==
  IF m > 30 THEN 0 ELSE x \div Pow(2, m)

\* p * 2^shift < q, for positive integers p and q below 2^31
LessShifted(p, q, shift) ==
  IF shift >= 0 THEN p <= ShiftRight(q - 1, shift)
  ELSE ShiftRight(p, -shift) < q

\* |a| * 2^shift < |b| for finite a and b
MagnitudeLess(a, b, shift) ==
  IF b.n = 0 THEN FALSE
  ELSE IF a.n = 0 THEN TRUE
  ELSE LessShifted(Abs(a.n) * b.d, Abs(b.n) * a.d, a.e - b.e + shift)

\* the double nearest to the finite value a, as far as the range of a double
\* goes: a magnitude of 2^1024 or more is an infinity
Overflow(a) ==
  IF a.n /= 0 /\ ~LessShifted(Abs(a.n), a.d, a.e - 1024)
    THEN (IF a.n < 0 THEN NegInfinity ELSE PosInfinity)
    ELSE a

\* unary minus
Neg(a) ==
  [a EXCEPT !.n = -a.n]

\* Math.abs
MathAbs(a) ==
  [a EXCEPT !.n = Abs(a.n)]

\* a + b.  A finite b of magnitude below |a| * 2^-54 is under half a unit in
\* the last place of a, and the sum rounds to a; operands closer than that
\* are added exactly.
Add(a, b) ==
  IF IsNaN(a) \/ IsNaN(b) THEN NaN
  ELSE IF ~IsFinite(a) THEN (IF ~IsFinite(b) /\ b.n /= a.n THEN NaN ELSE a)
  ELSE IF ~IsFinite(b) THEN b
  ELSE IF a.n = 0 THEN b
  ELSE IF b.n = 0 THEN a
  ELSE IF MagnitudeLess(b, a, 54) THEN a
  ELSE IF MagnitudeLess(a, b, 54) THEN b
  ELSE LET m == IF a.e < b.e THEN a.e ELSE b.e
       IN  Overflow(Scaled(a.n * Pow(2, a.e - m) * b.d + b.n * Pow(2, b.e - m) * a.d,
                           a.d * b.d, m))

\* a - b
Sub(a, b) ==
  Add(a, Neg(b))

\* a * b
Mul(a, b) ==
  IF IsNaN(a) \/ IsNaN(b) THEN NaN
  ELSE IF ~IsFinite(a) \/ ~IsFinite(b)
    THEN (IF a.n = 0 \/ b.n = 0 THEN NaN
          ELSE IF Sign(a.n) = Sign(b.n) THEN PosInfinity ELSE NegInfinity)
  ELSE Overflow(Scaled(a.n * b.n, a.d * b.d, a.e + b.e))

\* a / b.  A quotient of finite numbers is kept exact; a finite number over
\* zero is an infinity of its sign (NaN for 0 / 0), over an infinity it is 0.
Div(a, b) ==
  IF IsNaN(a) \/ IsNaN(b) THEN NaN
  ELSE IF ~IsFinite(a)
    THEN (IF ~IsFinite(b) THEN NaN
          ELSE IF b.n < 0 THEN Neg(a) ELSE a)
  ELSE IF ~IsFinite(b) THEN Whole(0)
  ELSE IF b.n = 0
    THEN (IF a.n = 0 THEN NaN
          ELSE IF a.n < 0 THEN NegInfinity ELSE PosInfinity)
  ELSE Overflow(Scaled(a.n * b.d, a.d * b.n, a.e - b.e))

\* a < b; false when either is NaN
Less(a, b) ==
  IF IsNaN(a) \/ IsNaN(b) THEN FALSE
  ELSE IF ~IsFinite(a) THEN a.n < 0 /\ b /= a
  ELSE IF ~IsFinite(b) THEN b.n > 0
  ELSE IF Sign(a.n) /= Sign(b.n) THEN Sign(a.n) < Sign(b.n)
  ELSE IF a.n > 0 THEN MagnitudeLess(a, b, 0)
  ELSE MagnitudeLess(b, a, 0)

\* a <= b; false when either is NaN
LessEq(a, b) ==
  ~IsNaN(a) /\ ~IsNaN(b) /\ (a = b \/ Less(a, b))

\* the integer a finite whole number stands for
IntegerValue(a) ==
  a.n * Pow(2, a.e)

\* the number of decimal digits of the positive integer n
RECURSIVE NumDigits(_)
NumDigits(n) ==
  IF n < 10 THEN 1 ELSE 1 + NumDigits(n \div 10)

---------------------------------------------------------------------------
(* Number(string): the StringToNumber conversion of the language *)

WhiteSpace ==
  {" ", "\t", "\n", "\r", "\f"}

HexDigits ==
  <<"0","1","2","3","4","5","6","7","8","9","a","b","c","d","e","f">>

UpperHexDigits ==
  <<"0","1","2","3","4","5","6","7","8","9","A","B","C","D","E","F">>

\* the value of digit character c, 16 when c is no digit of any radix
DigitValue(c) ==
  IF \E i \in 1..16 : HexDigits[i] = c
    THEN (CHOOSE i \in 1..16 : HexDigits[i] = c) - 1
    ELSE IF \E i \in 1..16 : UpperHexDigits[i] = c
      THEN (CHOOSE i \in 1..16 : UpperHexDigits[i] = c) - 1
      ELSE 16

\* every character of s is a digit of the radix (s may be empty)
AllDigits(s, radix) ==
  \A i \in 1..Len(s) : DigitValue(s[i]) < radix

RECURSIVE DigitsValue(_, _)
DigitsValue(s, radix) ==
  IF s = <<>> THEN 0
  ELSE DigitsValue(SubSeq(s, 1, Len(s) - 1), radix) * radix + DigitValue(s[Len(s)])

RECURSIVE TrimStart(_)
TrimStart(s) ==
  IF s /= <<>> /\ Head(s) \in WhiteSpace THEN TrimStart(Tail(s)) ELSE s

RECURSIVE TrimEnd(_)
TrimEnd(s) ==
  IF s /= <<>> /\ s[Len(s)] \in WhiteSpace THEN TrimEnd(SubSeq(s, 1, Len(s) - 1)) ELSE s

\* digits * 10^e10 as a double: beyond the largest double (about 1.8e308) the
\* conversion gives Infinity, below the smallest (about 5e-324) it gives 0
ScaleByPowerOfTen(digits, e10) ==
  IF digits = 0 THEN Whole(0)
  ELSE LET order == NumDigits(digits) - 1 + e10
       IN  IF order > 308 THEN PosInfinity
           ELSE IF order < -324 THEN Whole(0)
           ELSE IF e10 >= 0 THEN Whole(digits * Pow(10, e10))
           ELSE Fin(digits, Pow(10, -e10))

\* the part of s before position pos, and the part after it; all of s, and
\* nothing, when pos is 0
Before(s, pos) ==
  IF pos = 0 THEN s ELSE SubSeq(s, 1, pos - 1)

After(s, pos) ==
  IF pos = 0 THEN <<>> ELSE SubSeq(s, pos + 1, Len(s))

\* the digits of an exponent part, after its optional sign
ExponentDigits(exponent) ==
  IF exponent /= <<>> /\ Head(exponent) \in {"+", "-"} THEN Tail(exponent)
  ELSE exponent

\* the value of an exponent part, 0 for the missing one
ExponentValue(exponent) ==
  IF exponent = <<>> THEN 0
  ELSE IF Head(exponent) = "-" THEN -DigitsValue(ExponentDigits(exponent), 10)
  ELSE DigitsValue(ExponentDigits(exponent), 10)

\* digits, an optional fraction and an optional exponent part make a number;
\* anything else is NaN
DecimalOfParts(intPart, fracPart, hasExponent, exponent) ==
  IF /\ intPart /= <<>> \/ fracPart /= <<>>
     /\ AllDigits(intPart, 10)
     /\ AllDigits(fracPart, 10)
     /\ ~hasExponent \/ (/\ ExponentDigits(exponent) /= <<>>
                         /\ AllDigits(ExponentDigits(exponent), 10))
    THEN ScaleByPowerOfTen(DigitsValue(intPart \o fracPart, 10),
                           ExponentValue(exponent) - Len(fracPart))
    ELSE NaN

\* the mantissa split at its dot
DecimalOfMantissa(mantissa, dot, hasExponent, exponent) ==
  DecimalOfParts(Before(mantissa, dot), After(mantissa, dot), hasExponent, exponent)

\* the literal split at its e or E
DecimalOfLiteral(s, ePos) ==
  DecimalOfMantissa(Before(s, ePos), IndexOf(Before(s, ePos), {"."}),
                    ePos /= 0, After(s, ePos))

\* StrUnsignedDecimalLiteral: Infinity, or digits with an optional fraction and
\* an optional exponent part; anything else is NaN
StrUnsignedDecimalLiteral(s) ==
  IF s = STR_Infinity THEN PosInfinity
  ELSE DecimalOfLiteral(s, IndexOf(s, {"e", "E"}))

\* the radix of a 0x / 0o / 0b prefix, 0 when s has no such prefix
NonDecimalRadix(s) ==
  IF Len(s) >= 2 /\ s[1] = "0"
    THEN CASE s[2] \in {"x", "X"} -> 16
           [] s[2] \in {"o", "O"} -> 8
           [] s[2] \in {"b", "B"} -> 2
           [] OTHER -> 0
    ELSE 0

\* the digits ds after a 0x / 0o / 0b prefix
NonDecimalLiteral(ds, radix) ==
  IF ds /= <<>> /\ AllDigits(ds, radix) THEN Whole(DigitsValue(ds, radix)) ELSE NaN

\* the unsigned literal u after a sign
SignedLiteral(negative, u) ==
  IF ~negative THEN u
  ELSE IF IsFinite(u) THEN Neg(u)
  ELSE IF IsNaN(u) THEN NaN
  ELSE NegInfinity

\* StringNumericLiteral, for a string t without white space around it
StringNumericLiteral(t) ==
  IF t = <<>> THEN Whole(0)
  ELSE IF NonDecimalRadix(t) /= 0
    THEN NonDecimalLiteral(SubSeq(t, 3, Len(t)), NonDecimalRadix(t))
  ELSE SignedLiteral(Head(t) = "-",
                     StrUnsignedDecimalLiteral(IF Head(t) \in {"+", "-"} THEN Tail(t)
                                               ELSE t))

\* Number(s) for a string s
Number(s) ==
  StringNumericLiteral(TrimEnd(TrimStart(s)))

---------------------------------------------------------------------------
(* Completions, errors and the values of the Bases API *)

Normal(v) ==
  [type |-> "normal", value |-> v]

Throw(e) ==
  [type |-> "throw", value |-> e]

\* String(e) for a thrown Error: "<name>: <message>", the name alone when the
\* message is empty
String(e) ==
  IF e.message = <<>> THEN e.name ELSE e.name \o <<":", " ">> \o e.message

\* n >= 0 in decimal
RECURSIVE NatToString(_)
NatToString(n) ==
  IF n < 10 THEN <<HexDigits[n + 1]>>
  ELSE NatToString(n \div 10) \o <<HexDigits[(n % 10) + 1]>>

\* Number.prototype.toString of NaN, the infinities and the integers
NumberToString(a) ==
  IF IsNaN(a) THEN <<"N","a","N">>
  ELSE IF ~IsFinite(a) THEN (IF a.n < 0 THEN <<"-">> ELSE <<>>) \o STR_Infinity
  ELSE IF a.n < 0 THEN <<"-">> \o NatToString(-IntegerValue(a))
  ELSE NatToString(IntegerValue(a))

\* What entry.getValue(id) does for one property of one entry.  t says what
\* the call yields: "throws" (it throws error), "null", "undefined", "object"
\* (a Value wrapper or any other object), or a primitive "number", "boolean",
\* "string".  An object may carry isEmpty() (hasIsEmpty), which answers
\* "true" or "false" or "throws"; its toString() returns str or throws.
NoError ==
  [name |-> <<>>, message |-> <<>>]

Field(t, hasIsEmpty, isEmpty, toStringThrows, str, num, bool, error) ==
  [t |-> t, hasIsEmpty |-> hasIsEmpty, isEmpty |-> isEmpty,
   toStringThrows |-> toStringThrows, str |-> str, num |-> num, bool |-> bool,
   error |-> error]

\* entry.getValue(propertyId)
GetValue(e, id) ==
  LET f == e.fields[id]
  IN  IF f.t = "throws" THEN Throw(f.error) ELSE Normal(f)

\* JavaScript truthiness of a value that is neither null nor undefined
Truthy(value) ==
  CASE value.t = "number"  -> ~IsNaN(value.num) /\ value.num /= Whole(0)
    [] value.t = "boolean" -> value.bool
    [] value.t = "string"  -> value.str /= <<>>
    [] OTHER               -> TRUE

\* value.toString()
ValueToString(value) ==
  CASE value.t = "number"  -> Normal(NumberToString(value.num))
    [] value.t = "boolean" -> Normal(IF value.bool THEN <<"t","r","u","e">>
                                                   ELSE <<"f","a","l","s","e">>)
    [] value.t = "string"  -> Normal(value.str)
    [] OTHER               -> IF value.toStringThrows THEN Throw(value.error)
                                                      ELSE Normal(value.str)

\* an emptiness check under which the number 0 is not empty
IsValueEmptyZeroKept(value) ==
  IF value.t \in {"null", "undefined"} THEN Normal(TRUE)
  ELSE IF value.t = "object" /\ value.hasIsEmpty
    THEN IF value.isEmpty = "throws" THEN Throw(value.error)
                                     ELSE Normal(value.isEmpty = "true")
  ELSE Normal(~Truthy(value) /\ value.t /= "number")

\* isValueEmpty(value)
IsValueEmpty(value) ==
  IF value.t \in {"null", "undefined"} THEN Normal(TRUE)
  ELSE IF value.t = "object" /\ value.hasIsEmpty
    THEN IF value.isEmpty = "throws" THEN Throw(value.error)
                                     ELSE Normal(value.isEmpty = "true")
  ELSE Normal(~Truthy(value))

---------------------------------------------------------------------------
(* Value extraction *)

Success(v) ==
  [success |-> TRUE, value |-> v]

Failure(reason) ==
  [success |-> FALSE, reason |-> reason]

CategoryFailure ==
  [success |-> FALSE]

\* the reason of an empty property with the property id left out
EmptyReasonWithoutId(id) ==
  STR_Property \o STR_IsEmpty

\* `Property "${propertyId}" is empty`
EmptyReason(id) ==
  STR_Property \o id \o STR_IsEmpty

\* the try block of extractNumericValue with its Number.isFinite check left out
NumericTryBlockNoFiniteCheck(e, id) ==
  LET got == GetValue(e, id)
  IN  IF got.type = "throw" THEN got
      ELSE
        LET value == got.value
            empty == IF value.t \in {"null", "undefined"} THEN Normal(TRUE)
                     ELSE IsValueEmpty(value)
        IN  IF empty.type = "throw" THEN empty
            ELSE IF empty.value
              THEN Normal(Failure(EmptyReason(id)))
            ELSE
              LET str == ValueToString(value)
              IN  IF str.type = "throw" THEN str
                  ELSE IF IsNaN(Number(str.value))
                    THEN Normal(Failure(STR_Property \o id \o STR_Value
                                        \o str.value \o STR_IsNotNumeric))
                  ELSE Normal(Success(Number(str.value)))

\* the checks of the number converted from stringValue
NumericOfNumber(id, stringValue, numericValue) ==
  IF IsNaN(numericValue)
    THEN Normal(Failure(STR_Property \o id \o STR_Value
                        \o stringValue \o STR_IsNotNumeric))
  ELSE IF ~IsFinite(numericValue)
    THEN Normal(Failure(STR_Property \o id \o STR_ValueIsNotFinite))
  ELSE Normal(Success(numericValue))

\* the conversion of what value.toString() gave
NumericOfString(id, str) ==
  IF str.type = "throw" THEN str
  ELSE NumericOfNumber(id, str.value, Number(str.value))

\* value === null || value === undefined || isValueEmpty(value)
IsNullOrEmpty(value) ==
  IF value.t \in {"null", "undefined"} THEN Normal(TRUE) ELSE IsValueEmpty(value)

\* the try block after the empty check
NumericOfValue(id, value, empty) ==
  IF empty.type = "throw" THEN empty
  ELSE IF empty.value THEN Normal(Failure(EmptyReason(id)))
  ELSE NumericOfString(id, ValueToString(value))

\* the try block after entry.getValue
NumericOfLookup(id, got) ==
  IF got.type = "throw" THEN got
  ELSE NumericOfValue(id, got.value, IsNullOrEmpty(got.value))

\* the try block of extractNumericValue
NumericTryBlock(e, id) ==
  NumericOfLookup(id, GetValue(e, id))

\* extractNumericValue without its catch clause
ExtractNumericValueNoCatch(e, id) ==
  NumericTryBlock(e, id)

\* the catch clause of extractNumericValue
NumericCatch(id, try) ==
  IF try.type = "throw"
    THEN Normal(Failure(STR_FailedToRead \o id \o STR_QuoteColon \o String(try.value)))
    ELSE try

\* extractNumericValue(entry, propertyId): the try block, and its catch
ExtractNumericValue(e, id) ==
  NumericCatch(id, NumericTryBlock(e, id))

\* the string form of the category
CategoryOfString(str) ==
  IF str.type = "throw" THEN str ELSE Normal(Success(str.value))

\* the try block after the empty check
CategoryOfValue(value, empty) ==
  IF empty.type = "throw" THEN empty
  ELSE IF empty.value THEN Normal(CategoryFailure)
  ELSE CategoryOfString(ValueToString(value))

\* the try block after entry.getValue
CategoryOfLookup(got) ==
  IF got.type = "throw" THEN got
  ELSE CategoryOfValue(got.value, IsNullOrEmpty(got.value))

\* the try block of extractCategoryValue
CategoryTryBlock(e, id) ==
  CategoryOfLookup(GetValue(e, id))

\* extractCategoryValue without its catch clause
ExtractCategoryValueNoCatch(e, id) ==
  IF id = NULL THEN Normal(CategoryFailure) ELSE CategoryTryBlock(e, id[1])

\* the catch clause of extractCategoryValue
CategoryCatch(try) ==
  IF try.type = "throw" THEN Normal(CategoryFailure) ELSE try

\* extractCategoryValue(entry, propertyId), propertyId nullable
ExtractCategoryValue(e, id) ==
  IF id = NULL THEN Normal(CategoryFailure)
  ELSE CategoryCatch(CategoryTryBlock(e, id[1]))

---------------------------------------------------------------------------
(* Point extraction *)

SkippedEntry(file, reason) ==
  [file |-> file, reason |-> reason]

ScatterPoint(x, y, category, e) ==
  [x |-> x, y |-> y, category |-> category, label |-> e.file.basename,
   file |-> e.file, entry |-> e]

\* entryToPoint testing "Y configured" only after the X extraction
EntryToPointXBeforeYConfig(e, cfg) ==
  IF cfg.xAxis = NULL THEN Normal(SkippedEntry(e.file, STR_XNotConfigured))
  ELSE
    LET xResult == ExtractNumericValue(e, cfg.xAxis[1])
    IN  IF xResult.type = "throw" THEN xResult
        ELSE IF ~xResult.value.success
          THEN Normal(SkippedEntry(e.file, xResult.value.reason))
        ELSE IF cfg.yAxis = NULL
          THEN Normal(SkippedEntry(e.file, STR_YNotConfigured))
        ELSE
          LET yResult == ExtractNumericValue(e, cfg.yAxis[1])
          IN  IF yResult.type = "throw" THEN yResult
              ELSE IF ~yResult.value.success
                THEN Normal(SkippedEntry(e.file, yResult.value.reason))
              ELSE
                LET categoryResult == ExtractCategoryValue(e, cfg.colorBy)
                IN  IF categoryResult.type = "throw" THEN categoryResult
                    ELSE
                      LET category == IF categoryResult.value.success
                                        THEN Some(categoryResult.value.value)
                                        ELSE NULL
                      IN  Normal(ScatterPoint(xResult.value.value,
                                              yResult.value.value, category, e))

\* entryToPoint with x, y and the category extraction done
PointOfCategory(e, x, y, categoryResult) ==
  IF categoryResult.type = "throw" THEN categoryResult
  ELSE Normal(ScatterPoint(x, y,
                           IF categoryResult.value.success
                             THEN Some(categoryResult.value.value)
                             ELSE NULL,
                           e))

\* entryToPoint with x and the Y extraction done
PointOfY(e, cfg, x, yResult) ==
  IF yResult.type = "throw" THEN yResult
  ELSE IF ~yResult.value.success
    THEN Normal(SkippedEntry(e.file, yResult.value.reason))
  ELSE PointOfCategory(e, x, yResult.value.value,
                       ExtractCategoryValue(e, cfg.colorBy))

\* entryToPoint with the X extraction done
PointOfX(e, cfg, xResult) ==
  IF xResult.type = "throw" THEN xResult
  ELSE IF ~xResult.value.success
    THEN Normal(SkippedEntry(e.file, xResult.value.reason))
  ELSE PointOfY(e, cfg, xResult.value.value,
                ExtractNumericValue(e, cfg.yAxis[1]))

\* entryToPoint(entry, config)
EntryToPoint(e, cfg) ==
  IF cfg.xAxis = NULL THEN Normal(SkippedEntry(e.file, STR_XNotConfigured))
  ELSE IF cfg.yAxis = NULL THEN Normal(SkippedEntry(e.file, STR_YNotConfigured))
  ELSE PointOfX(e, cfg, ExtractNumericValue(e, cfg.xAxis[1]))

\* isScatterPoint(result)
IsScatterPoint(result) ==
  "x" \in DOMAIN result /\ "y" \in DOMAIN result

\* isSkippedEntry(result)
IsSkippedEntry(result) ==
  "reason" \in DOMAIN result

---------------------------------------------------------------------------
(* Batch processing *)

\* the loop of extractCategories without the test of the set seen
RECURSIVE CategoriesLoopNoSeenCheck(_, _, _, _)
CategoriesLoopNoSeenCheck(ps, i, seen, cats) ==
  IF i > Len(ps) THEN cats
  ELSE IF ps[i].category /= NULL
    THEN CategoriesLoopNoSeenCheck(ps, i + 1, seen \cup {ps[i].category[1]},
                                   Append(cats, ps[i].category[1]))
    ELSE CategoriesLoopNoSeenCheck(ps, i + 1, seen, cats)

\* the loop of extractCategories from point i on, with the set seen and the
\* list cats built so far
RECURSIVE CategoriesLoop(_, _, _, _)
CategoriesLoop(ps, i, seen, cats) ==
  IF i > Len(ps) THEN cats
  ELSE IF ps[i].category /= NULL /\ ps[i].category[1] \notin seen
    THEN CategoriesLoop(ps, i + 1, seen \cup {ps[i].category[1]},
                        Append(cats, ps[i].category[1]))
    ELSE CategoriesLoop(ps, i + 1, seen, cats)

\* extractCategories(points)
ExtractCategories(ps) ==
  CategoriesLoop(ps, 1, {}, <<>>)

\* the loop of extractDataFromEntries returning at the first skipped entry
RECURSIVE EntriesLoopStopAtFailure(_, _, _, _, _)
EntriesLoopStopAtFailure(es, cfg, i, ps, sk) ==
  IF i > Len(es) THEN Normal([points |-> ps, skipped |-> sk])
  ELSE
    LET result == EntryToPoint(es[i], cfg)
    IN  IF result.type = "throw" THEN result
        ELSE IF IsScatterPoint(result.value)
          THEN EntriesLoopStopAtFailure(es, cfg, i + 1, Append(ps, result.value), sk)
          ELSE Normal([points |-> ps, skipped |-> Append(sk, result.value)])

\* the loop of extractDataFromEntries from entry i on, with the lists built so
\* far; an exception leaving entryToPoint leaves the loop
RECURSIVE EntriesLoop(_, _, _, _, _)

\* the body of the loop for entry i, whose entryToPoint gave result
EntriesLoopBody(es, cfg, i, ps, sk, result) ==
  IF result.type = "throw" THEN result
  ELSE IF IsScatterPoint(result.value)
    THEN EntriesLoop(es, cfg, i + 1, Append(ps, result.value), sk)
    ELSE EntriesLoop(es, cfg, i + 1, ps, Append(sk, result.value))

EntriesLoop(es, cfg, i, ps, sk) ==
  IF i > Len(es) THEN Normal([points |-> ps, skipped |-> sk])
  ELSE EntriesLoopBody(es, cfg, i, ps, sk, EntryToPoint(es[i], cfg))

\* the result of extractDataFromEntries from the lists the loop built
DataExtractionResult(loop) ==
  IF loop.type = "throw" THEN loop
  ELSE Normal([points     |-> loop.value.points,
               skipped    |-> loop.value.skipped,
               categories |-> ExtractCategories(loop.value.points)])

\* extractDataFromEntries(entries, config)
ExtractDataFromEntries(es, cfg) ==
  DataExtractionResult(EntriesLoop(es, cfg, 1, <<>>, <<>>))

---------------------------------------------------------------------------
(* Bounds calculation *)

\* Math.min(...values) and Math.max(...values) of a non-empty list
MathMin(vs) ==
  CHOOSE m \in {vs[i] : i \in 1..Len(vs)} : \A i \in 1..Len(vs) : LessEq(m, vs[i])

MathMax(vs) ==
  CHOOSE m \in {vs[i] : i \in 1..Len(vs)} : \A i \in 1..Len(vs) : LessEq(vs[i], m)

\* a || b taken for a
OrElseLeft(a, b) ==
  a

\* a || b for numbers: b when a is 0 (or NaN)
OrElse(a, b) ==
  IF IsNaN(a) \/ a = Whole(0) THEN b ELSE a

\* the padding of calculateAxisBounds taken from the range alone
AxisPaddingOfRange(min, range, pp) ==
  Mul(range, pp)

\* the padding of calculateAxisBounds
AxisPadding(min, range, pp) ==
  IF range = Whole(0) THEN OrElse(Mul(MathAbs(min), pp), Whole(1))
                      ELSE Mul(range, pp)

\* {min: min - padding, max: max + padding}
PaddedBounds(min, max, padding) ==
  Some([min |-> Sub(min, padding), max |-> Add(max, padding)])

\* the bounds from min, max and range = max - min
BoundsOfRange(min, max, range, pp) ==
  PaddedBounds(min, max, AxisPadding(min, range, pp))

\* calculateAxisBounds(values, paddingPercent)
CalculateAxisBounds(vs, pp) ==
  IF Len(vs) = 0 THEN NULL
  ELSE BoundsOfRange(MathMin(vs), MathMax(vs), Sub(MathMax(vs), MathMin(vs)), pp)

\* calculatePlotBounds taking the Y bounds from the x values as well
CalculatePlotBoundsFromX(ps, pp) ==
  IF Len(ps) = 0 THEN NULL
  ELSE
    LET xValues == [i \in 1..Len(ps) |-> ps[i].x]
        xBounds == CalculateAxisBounds(xValues, pp)
    IN  IF xBounds = NULL THEN NULL
        ELSE Some([x |-> xBounds[1], y |-> xBounds[1]])

\* {x: xBounds, y: yBounds}, null when either is null
PlotBoundsOf(xBounds, yBounds) ==
  IF xBounds = NULL \/ yBounds = NULL THEN NULL
  ELSE Some([x |-> xBounds[1], y |-> yBounds[1]])

\* calculatePlotBounds(points, paddingPercent)
CalculatePlotBounds(ps, pp) ==
  IF Len(ps) = 0 THEN NULL
  ELSE PlotBoundsOf(CalculateAxisBounds([i \in 1..Len(ps) |-> ps[i].x], pp),
                    CalculateAxisBounds([i \in 1..Len(ps) |-> ps[i].y], pp))

\* the default padding fraction, 0.05
DefaultPaddingPercent ==
  Fin(5, 100)

---------------------------------------------------------------------------
(* Coordinate transformation *)

\* a scale that clamps the normalized position to [0, 1]
LinearScaleClamped(value, domainMin, rangeMin, domainSpan, rangeSpan) ==
  LET normalized == Div(Sub(value, domainMin), domainSpan)
      clamped == IF Less(normalized, Whole(0)) THEN Whole(0)
                 ELSE IF Less(Whole(1), normalized) THEN Whole(1)
                 ELSE normalized
  IN  Add(rangeMin, Mul(clamped, rangeSpan))

\* the function returned by createLinearScale when domainSpan /= 0, applied
\* to value
LinearScaleOf(value, domainMin, rangeMin, domainSpan, rangeSpan) ==
  Add(rangeMin, Mul(Div(Sub(value, domainMin), domainSpan), rangeSpan))

\* a scale without the check for a domain of no span
CreateLinearScaleUnguarded(domainMin, domainMax, rangeMin, rangeMax, value) ==
  LinearScaleOf(value, domainMin, rangeMin,
                Sub(domainMax, domainMin), Sub(rangeMax, rangeMin))

\* createLinearScale(domainMin, domainMax, rangeMin, rangeMax)(value)
CreateLinearScale(domainMin, domainMax, rangeMin, rangeMax, value) ==
  IF Sub(domainMax, domainMin) = Whole(0)
    THEN Div(Add(rangeMin, rangeMax), Whole(2))
    ELSE LinearScaleOf(value, domainMin, rangeMin,
                       Sub(domainMax, domainMin), Sub(rangeMax, rangeMin))

\* an inverse that divides by the span of the domain and multiplies by the
\* span of the range
InverseLinearScaleSwapped(screenValue, domainMin, rangeMin, domainSpan, rangeSpan) ==
  Add(domainMin, Mul(Div(Sub(screenValue, rangeMin), domainSpan), rangeSpan))

\* the function returned by createInverseLinearScale when rangeSpan /= 0,
\* applied to screenValue
InverseLinearScaleOf(screenValue, domainMin, rangeMin, domainSpan, rangeSpan) ==
  Add(domainMin, Mul(Div(Sub(screenValue, rangeMin), rangeSpan), domainSpan))

\* createInverseLinearScale(domainMin, domainMax, rangeMin, rangeMax)(screenValue)
CreateInverseLinearScale(domainMin, domainMax, rangeMin, rangeMax, screenValue) ==
  IF Sub(rangeMax, rangeMin) = Whole(0)
    THEN Div(Add(domainMin, domainMax), Whole(2))
    ELSE InverseLinearScaleOf(screenValue, domainMin, rangeMin,
                              Sub(domainMax, domainMin), Sub(rangeMax, rangeMin))

---------------------------------------------------------------------------
(* Colour assignment *)

\* DEFAULT_PALETTE
DEFAULT_PALETTE ==
  [fallback |-> <<"v", "a", "r", "(", "-", "-", "t", "e", "x", "t", "-", "m", "u", "t", "e", "d", ")">>,
   colors |-> << <<"v", "a", "r", "(", "-", "-", "c", "o", "l", "o", "r", "-", "b", "l", "u", "e", ")">>,
                 <<"v", "a", "r", "(", "-", "-", "c", "o", "l", "o", "r", "-", "g", "r", "e", "e", "n", ")">>,
                 <<"v", "a", "r", "(", "-", "-", "c", "o", "l", "o", "r", "-", "y", "e", "l", "l", "o", "w", ")">>,
                 <<"v", "a", "r", "(", "-", "-", "c", "o", "l", "o", "r", "-", "o", "r", "a", "n", "g", "e", ")">>,
                 <<"v", "a", "r", "(", "-", "-", "c", "o", "l", "o", "r", "-", "r", "e", "d", ")">>,
                 <<"v", "a", "r", "(", "-", "-", "c", "o", "l", "o", "r", "-", "p", "u", "r", "p", "l", "e", ")">>,
                 <<"v", "a", "r", "(", "-", "-", "c", "o", "l", "o", "r", "-", "p", "i", "n", "k", ")">>,
                 <<"v", "a", "r", "(", "-", "-", "c", "o", "l", "o", "r", "-", "c", "y", "a", "n", ")">> >>]

\* Map.prototype.has
MapHas(map, key) ==
  \E i \in 1..Len(map) : map[i].key = key

\* Map.prototype.get: the value of the entry of the key, or undefined (NULL)
MapGet(map, key) ==
  IF MapHas(map, key)
    THEN (CHOOSE e \in {map[i] : i \in 1..Len(map)} : e.key = key).value
    ELSE NULL

\* Map.prototype.set: the value of an existing entry is replaced where the
\* entry stands, a new entry goes last
MapSet(map, key, value) ==
  IF MapHas(map, key)
    THEN [i \in 1..Len(map) |->
            IF map[i].key = key THEN [key |-> key, value |-> value] ELSE map[i]]
    ELSE Append(map, [key |-> key, value |-> value])

\* colors[index % colors.length]: an element of the array, or undefined when
\* the array is empty and the index is NaN
ColorAt(colors, index) ==
  IF Len(colors) = 0 THEN NULL ELSE Some(colors[(index % Len(colors)) + 1])

\* a colour map that gives every category the first colour
ColorMapLoopFirstColor(cats, pal, index, map) ==
  IF index > Len(cats) THEN map
  ELSE [i \in 1..Len(cats) |-> [key |-> cats[i], value |-> ColorAt(pal.colors, 0)]]

\* categories.forEach((category, index) => ...): index counts from 1 here,
\* from 0 in the code
RECURSIVE ColorMapLoop(_, _, _, _)
ColorMapLoop(cats, pal, index, map) ==
  IF index > Len(cats) THEN map
  ELSE ColorMapLoop(cats, pal, index + 1,
                    MapSet(map, cats[index], ColorAt(pal.colors, index - 1)))

\* createCategoryColorMap(categories, palette)
CreateCategoryColorMap(cats, pal) ==
  ColorMapLoop(cats, pal, 1, <<>>)

\* a ?? b on an optional colour
OrFallback(mapped, fallback) ==
  IF mapped = NULL THEN fallback ELSE mapped[1]

\* a lookup that ignores the map
GetPointColorAlwaysFallback(point, map, fallback) ==
  fallback

\* getPointColor(point, colorMap, fallback)
GetPointColor(point, map, fallback) ==
  IF point.category = NULL THEN fallback
  ELSE OrFallback(MapGet(map, point.category[1]), fallback)

---------------------------------------------------------------------------
(* Point transformation *)

\* { ...point, screenX, screenY, color }
RenderedPoint(point, screenX, screenY, color) ==
  [x |-> point.x, y |-> point.y, category |-> point.category,
   label |-> point.label, file |-> point.file, entry |-> point.entry,
   screenX |-> screenX, screenY |-> screenY, color |-> color]

\* a transformation whose Y range is [0, inner.height]
TransformYNotInverted(ps, b, inr, map, pal) ==
  [i \in 1..Len(ps) |->
     RenderedPoint(ps[i],
       CreateLinearScale(b.x.min, b.x.max, Whole(0), inr.width, ps[i].x),
       CreateLinearScale(b.y.min, b.y.max, Whole(0), inr.height, ps[i].y),
       GetPointColor(ps[i], map, pal.fallback))]

\* a transformation that leaves out the points without category
TransformOnlyCategorized(ps, b, inr, map, pal) ==
  SelectSeq([i \in 1..Len(ps) |->
     RenderedPoint(ps[i],
       CreateLinearScale(b.x.min, b.x.max, Whole(0), inr.width, ps[i].x),
       CreateLinearScale(b.y.min, b.y.max, inr.height, Whole(0), ps[i].y),
       GetPointColor(ps[i], map, pal.fallback))],
     LAMBDA r : r.category /= NULL)

\* transformPointsToScreen(points, bounds, inner, colorMap, palette)
TransformPointsToScreen(ps, b, inr, map, pal) ==
  [i \in 1..Len(ps) |->
     RenderedPoint(ps[i],
       CreateLinearScale(b.x.min, b.x.max, Whole(0), inr.width, ps[i].x),
       CreateLinearScale(b.y.min, b.y.max, inr.height, Whole(0), ps[i].y),
       GetPointColor(ps[i], map, pal.fallback))]

---------------------------------------------------------------------------
(* Axis ticks *)

\* DEFAULT_TICK_CONFIG.count
DefaultTickCount ==
  5

\* ticks whose step is the range over the count
GenerateTicksStepByCount(b, count) ==
  [i \in 1..count |->
     Add(b.min, Mul(Whole(i - 1), Div(Sub(b.max, b.min), Whole(count))))]

\* generateTicks(bounds, count): Array.from over the indices 0 .. count - 1,
\* which are i - 1 here
GenerateTicks(b, count) ==
  [i \in 1..count |->
     Add(b.min, Mul(Whole(i - 1), Div(Sub(b.max, b.min), Whole(count - 1))))]

---------------------------------------------------------------------------
(* Chart construction.  An element is a record of its tag, its class and   *)
(* the attributes the code sets from computed values; an attribute holds   *)
(* the number handed to setAttribute.  Constant styling is left out.       *)

\* DEFAULT_VIEWPORT: 800 x 600, margins 20, 20, 40, 50
DEFAULT_VIEWPORT ==
  [width |-> Whole(800), height |-> Whole(600),
   margin |-> [top |-> Whole(20), right |-> Whole(20),
               bottom |-> Whole(40), left |-> Whole(50)]]

\* calculateInnerDimensions(viewport)
CalculateInnerDimensions(vp) ==
  [width  |-> Sub(Sub(vp.width, vp.margin.left), vp.margin.right),
   height |-> Sub(Sub(vp.height, vp.margin.top), vp.margin.bottom)]

\* createSvgElement("line", {x1, y1, x2, y2, class})
Line(x1, y1, x2, y2, class) ==
  [tag |-> "line", class |-> class, x1 |-> x1, y1 |-> y1, x2 |-> x2, y2 |-> y2]

\* createSvgElement("text", {x, y, class}); content is what textContent is
\* made from: the label string, or the tick value handed to
\* tickConfig.format
Text(x, y, class, content) ==
  [tag |-> "text", class |-> class, x |-> x, y |-> y, content |-> content]

\* the children of the X axis group: the axis line, a tick line and a tick
\* label per tick, the axis label
XAxisChild(k, bounds, inr, label, count) ==
  IF k = 1 THEN
    Line(Whole(0), inr.height, inr.width, inr.height, "scatter-axis-line")
  ELSE IF k = 2 * count + 2 THEN
    Text(Div(inr.width, Whole(2)), Add(inr.height, Whole(35)),
         "scatter-axis-label", label)
  ELSE IF k % 2 = 0 THEN
    Line(CreateLinearScale(bounds.min, bounds.max, Whole(0), inr.width,
                           GenerateTicks(bounds, count)[k \div 2]),
         inr.height,
         CreateLinearScale(bounds.min, bounds.max, Whole(0), inr.width,
                           GenerateTicks(bounds, count)[k \div 2]),
         Add(inr.height, Whole(6)), "scatter-tick")
  ELSE
    Text(CreateLinearScale(bounds.min, bounds.max, Whole(0), inr.width,
                           GenerateTicks(bounds, count)[k \div 2]),
         Add(inr.height, Whole(20)), "scatter-tick-label",
         GenerateTicks(bounds, count)[k \div 2])

\* createXAxis(bounds, inner, label), the tick configuration being the default
CreateXAxis(bounds, inr, label) ==
  [tag |-> "g", class |-> "scatter-axis scatter-axis-x",
   children |-> [k \in 1..(2 * DefaultTickCount + 2) |->
                   XAxisChild(k, bounds, inr, label, DefaultTickCount)]]

\* the children of the Y axis group
YAxisChild(k, bounds, inr, label, count) ==
  IF k = 1 THEN
    Line(Whole(0), Whole(0), Whole(0), inr.height, "scatter-axis-line")
  ELSE IF k = 2 * count + 2 THEN
    Text(Div(Neg(inr.height), Whole(2)), Whole(-35), "scatter-axis-label",
         label)
  ELSE IF k % 2 = 0 THEN
    Line(Whole(-6),
         CreateLinearScale(bounds.min, bounds.max, inr.height, Whole(0),
                           GenerateTicks(bounds, count)[k \div 2]),
         Whole(0),
         CreateLinearScale(bounds.min, bounds.max, inr.height, Whole(0),
                           GenerateTicks(bounds, count)[k \div 2]),
         "scatter-tick")
  ELSE
    Text(Whole(-10),
         Add(CreateLinearScale(bounds.min, bounds.max, inr.height, Whole(0),
                               GenerateTicks(bounds, count)[k \div 2]),
             Whole(4)),
         "scatter-tick-label", GenerateTicks(bounds, count)[k \div 2])

\* createYAxis(bounds, inner, label)
CreateYAxis(bounds, inr, label) ==
  [tag |-> "g", class |-> "scatter-axis scatter-axis-y",
   children |-> [k \in 1..(2 * DefaultTickCount + 2) |->
                   YAxisChild(k, bounds, inr, label, DefaultTickCount)]]

\* DEFAULT_POINT_CONFIG: radius 8, opacity 0.7, hoverRadius 12
DEFAULT_POINT_CONFIG ==
  [radius |-> Whole(8), opacity |-> Fin(7, 10), hoverRadius |-> Whole(12)]

\* createPointElement(point, config)
CreatePointElement(point, pointConfig) ==
  [tag |-> "circle", class |-> "scatter-point", cx |-> point.screenX,
   cy |-> point.screenY, r |-> pointConfig.radius, fill |-> point.color,
   opacity |-> pointConfig.opacity, dataFilePath |-> point.file.path]

\* createPointsLayer(points, config)
CreatePointsLayer(ps, pointConfig) ==
  [tag |-> "g", class |-> "scatter-points",
   children |-> [i \in 1..Len(ps) |-> CreatePointElement(ps[i], pointConfig)]]

\* grid lines placed on one more tick than the axes have
CreateGridLinesExtraTick(xBounds, yBounds, inr, count) ==
  [tag |-> "g", class |-> "scatter-grid",
   children |->
     [i \in 1..(count + 1) |->
        Line(CreateLinearScale(xBounds.min, xBounds.max, Whole(0), inr.width,
                               GenerateTicks(xBounds, count + 1)[i]),
             Whole(0),
             CreateLinearScale(xBounds.min, xBounds.max, Whole(0), inr.width,
                               GenerateTicks(xBounds, count + 1)[i]),
             inr.height, "scatter-grid-line")]
     \o
     [i \in 1..(count + 1) |->
        Line(Whole(0),
             CreateLinearScale(yBounds.min, yBounds.max, inr.height, Whole(0),
                               GenerateTicks(yBounds, count + 1)[i]),
             inr.width,
             CreateLinearScale(yBounds.min, yBounds.max, inr.height, Whole(0),
                               GenerateTicks(yBounds, count + 1)[i]),
             "scatter-grid-line")]]

\* createGridLines(xBounds, yBounds, inner, count): the vertical lines,
\* then the horizontal ones
CreateGridLines(xBounds, yBounds, inr, count) ==
  [tag |-> "g", class |-> "scatter-grid",
   children |->
     [i \in 1..count |->
        Line(CreateLinearScale(xBounds.min, xBounds.max, Whole(0), inr.width,
                               GenerateTicks(xBounds, count)[i]),
             Whole(0),
             CreateLinearScale(xBounds.min, xBounds.max, Whole(0), inr.width,
                               GenerateTicks(xBounds, count)[i]),
             inr.height, "scatter-grid-line")]
     \o
     [i \in 1..count |->
        Line(Whole(0),
             CreateLinearScale(yBounds.min, yBounds.max, inr.height, Whole(0),
                               GenerateTicks(yBounds, count)[i]),
             inr.width,
             CreateLinearScale(yBounds.min, yBounds.max, inr.height, Whole(0),
                               GenerateTicks(yBounds, count)[i]),
             "scatter-grid-line")]]

\* the children of the main group: the grid when showGrid, the two axes, the
\* points layer
MainGroupChildren(ps, bounds, cats, cfg, inr) ==
  (IF cfg.showGrid
     THEN << CreateGridLines(bounds.x, bounds.y, inr, DefaultTickCount) >>
     ELSE << >>)
  \o << CreateXAxis(bounds.x, inr, cfg.xLabel),
        CreateYAxis(bounds.y, inr, cfg.yLabel),
        CreatePointsLayer(
          TransformPointsToScreen(ps, bounds, inr,
            CreateCategoryColorMap(cats, cfg.palette), cfg.palette),
          cfg.pointConfig) >>

\* createChartSvg(points, bounds, categories, config): the root element, whose
\* one child is the main group
CreateChartSvg(ps, bounds, cats, cfg) ==
  [tag |-> "svg", class |-> "scatter-chart",
   width |-> cfg.viewport.width, height |-> cfg.viewport.height,
   children |-> MainGroupChildren(ps, bounds, cats, cfg,
                                  CalculateInnerDimensions(cfg.viewport))]

---------------------------------------------------------------------------
(* The view: configuration, the render cycle, its listeners *)

\* 'Configure X and Y axis properties in the view settings to display the scatter plot.'
STR_ConfigureAxes ==
  <<"C","o","n","f","i","g","u","r","e"," ","X"," ","a","n","d"," ","Y"," ",
    "a","x","i","s"," ","p","r","o","p","e","r","t","i","e","s"," ","i","n",
    " ","t","h","e"," ","v","i","e","w"," ","s","e","t","t","i","n","g","s",
    " ","t","o"," ","d","i","s","p","l","a","y"," ","t","h","e"," ","s","c",
    "a","t","t","e","r"," ","p","l","o","t",".">>

\* 'No notes match the current filters.'
STR_NoNotesMatch ==
  <<"N","o"," ","n","o","t","e","s"," ","m","a","t","c","h"," ","t","h","e",
    " ","c","u","r","r","e","n","t"," ","f","i","l","t","e","r","s",".">>

\* 'Unable to calculate plot bounds.'
STR_UnableToCalculate ==
  <<"U","n","a","b","l","e"," ","t","o"," ","c","a","l","c","u","l","a","t",
    "e"," ","p","l","o","t"," ","b","o","u","n","d","s",".">>

\* 'No plottable points. '
STR_NoPlottablePoints ==
  <<"N","o"," ","p","l","o","t","t","a","b","l","e"," ","p","o","i","n","t",
    "s","."," ">>

\* ' note'
STR_Note ==
  <<" ","n","o","t","e">>

\* ' skipped due to missing or non-numeric values.'
STR_SkippedDueTo ==
  <<" ","s","k","i","p","p","e","d"," ","d","u","e"," ","t","o"," ","m","i",
    "s","s","i","n","g"," ","o","r"," ","n","o","n","-","n","u","m","e","r",
    "i","c"," ","v","a","l","u","e","s",".">>

\* ' skipped (missing numeric values)'
STR_SkippedMissing ==
  <<" ","s","k","i","p","p","e","d"," ","(","m","i","s","s","i","n","g"," ",
    "n","u","m","e","r","i","c"," ","v","a","l","u","e","s",")">>

\* the letters of [a-z] and of [A-Z], in order
LowerLetters ==
  <<"a","b","c","d","e","f","g","h","i","j","k","l","m","n","o","p","q","r",
    "s","t","u","v","w","x","y","z">>

UpperLetters ==
  <<"A","B","C","D","E","F","G","H","I","J","K","L","M","N","O","P","Q","R",
    "S","T","U","V","W","X","Y","Z">>

IsLower(c) ==
  \E i \in 1..Len(LowerLetters) : LowerLetters[i] = c

IsUpper(c) ==
  \E i \in 1..Len(UpperLetters) : UpperLetters[i] = c

\* c.toUpperCase() of one character
ToUpperCase(c) ==
  IF IsLower(c)
    THEN UpperLetters[CHOOSE i \in 1..Len(LowerLetters) : LowerLetters[i] = c]
    ELSE c

\* parts.length > 1 ? parts.slice(1).join(".") : propertyId, the parts being
\* those of split("."): what follows the first dot, all of it without a dot
WithoutPrefix(s) ==
  IF IndexOf(s, {"."}) = 0 THEN s ELSE After(s, IndexOf(s, {"."}))

\* replace(/([a-z])([A-Z])/g, "$1 $2"): a space between a lower-case letter
\* and the upper-case letter after it
RECURSIVE SplitCamelCase(_)
SplitCamelCase(s) ==
  IF Len(s) < 2 THEN s
  ELSE IF IsLower(s[1]) /\ IsUpper(s[2])
    THEN << s[1], " " >> \o SplitCamelCase(Tail(s))
    ELSE << s[1] >> \o SplitCamelCase(Tail(s))

\* replace(/_/g, " ")
UnderscoresToSpaces(s) ==
  [i \in 1..Len(s) |-> IF s[i] = "_" THEN " " ELSE s[i]]

\* replace(/^\w/, (c) => c.toUpperCase()): upper case leaves digits, the
\* underscore and every other character as they are
CapitalizeFirst(s) ==
  IF Len(s) = 0 THEN s ELSE << ToUpperCase(s[1]) >> \o Tail(s)

\* propertyIdToLabel(propertyId)
PropertyIdToLabel(id) ==
  IF id = NULL THEN <<>>
  ELSE CapitalizeFirst(UnderscoresToSpaces(SplitCamelCase(WithoutPrefix(id[1]))))

\* what view.config.get(key) yields: undefined, a string, or a value of
\* another type
ConfigValue(type, str) ==
  [type |-> type, str |-> str]

\* typeof v === "string" && v.length > 0 ? v : null
NonEmptyStringOrNull(v) ==
  IF v.type = "string" /\ Len(v.str) > 0 THEN Some(v.str) ELSE NULL

\* readConfig(view)
ReadConfig(cfg) ==
  [xAxis   |-> NonEmptyStringOrNull(cfg.xAxis),
   yAxis   |-> NonEmptyStringOrNull(cfg.yAxis),
   colorBy |-> NonEmptyStringOrNull(cfg.colorBy)]

\* flattenGroupedData(groupedData): the entries of the groups, in order
RECURSIVE FlattenGroupedData(_)
FlattenGroupedData(groups) ==
  IF groups = <<>> THEN <<>>
  ELSE Head(groups).entries \o FlattenGroupedData(Tail(groups))

\* a <div> with a text
DivElement(class, content) ==
  [tag |-> "div", class |-> class, content |-> content]

\* createEmptyState(message): the icon, then the message
CreateEmptyState(message) ==
  [tag |-> "div", class |-> "scatter-empty-state",
   children |-> << DivElement("", <<"U+1F4CA">>), DivElement("", message) >>]

\* createSkippedWarning(count)
CreateSkippedWarning(count) ==
  DivElement("scatter-skipped-warning",
       NatToString(count) \o STR_Note
       \o (IF count = 1 THEN <<>> ELSE <<"s">>) \o STR_SkippedMissing)

\* the message of onDataUpdated when no point is plottable
NoPointsMessage(skippedCount) ==
  IF skippedCount > 0
    THEN STR_NoPlottablePoints \o NatToString(skippedCount) \o STR_Note
         \o (IF skippedCount = 1 THEN <<>> ELSE <<"s">>) \o STR_SkippedDueTo
    ELSE STR_NoNotesMatch

\* a viewport that takes the size of the container whatever it is
ViewportOfAnySize(rect) ==
  [DEFAULT_VIEWPORT EXCEPT !.width = rect.width, !.height = rect.height]

\* updateViewportFromContainer(): the viewport from the container's rectangle
ViewportFromContainer(rect) ==
  [DEFAULT_VIEWPORT EXCEPT
     !.width  = IF Less(Whole(100), rect.width) THEN rect.width
                ELSE DEFAULT_VIEWPORT.width,
     !.height = IF Less(Whole(100), rect.height) THEN rect.height
                ELSE DEFAULT_VIEWPORT.height]

\* the event types attachPointEvents listens to on the svg
PointEventTypes ==
  {"mouseenter", "mouseleave", "click"}

\* the event type attachWheelZoom listens to on the svg
WheelEventTypes ==
  {"wheel"}

\* the listeners of the given types on a target
ListenersOn(target, types) ==
  {[target |-> target, type |-> t] : t \in types}

\* the listeners left when the cleanup function c has run: cleanupEvents
\* removes those of attachPointEvents, cleanupZoom that of attachWheelZoom
AfterCleanup(c, ls) ==
  IF c = NULL THEN ls
  ELSE (ls \ (IF "cleanupEvents" \in c[1]
                THEN ListenersOn("svg", PointEventTypes) ELSE {}))
          \ (IF "cleanupZoom" \in c[1]
                THEN ListenersOn("svg", WheelEventTypes) ELSE {})

\* containerEl.empty(): a listener still attached stays on its svg, which is
\* no longer in the container
Detached(ls) ==
  {[target |-> "detached svg", type |-> l.type] : l \in ls}

RECURSIVE PointIndexLoop(_, _, _)

\* an index keyed by the label of the point
PointIndexLoopByLabel(ps, i, index) ==
  IF i > Len(ps) THEN index
  ELSE PointIndexLoop(ps, i + 1, MapSet(index, ps[i].label, Some(ps[i])))

\* createPointIndex: for (const point of points) index.set(point.file.path,
\* point)
PointIndexLoop(ps, i, index) ==
  IF i > Len(ps) THEN index
  ELSE PointIndexLoop(ps, i + 1, MapSet(index, ps[i].file.path, Some(ps[i])))

\* createPointIndex(points)
CreatePointIndex(ps) ==
  PointIndexLoop(ps, 1, <<>>)

\* element.getAttribute(name): NULL when the element has no such attribute
GetAttribute(element, name) ==
  IF name \in DOMAIN element THEN Some(element[name]) ELSE NULL

\* findPointFromElement(element, pointIndex)
FindPointFromElement(element, index) ==
  IF GetAttribute(element, "dataFilePath") = NULL THEN NULL
  ELSE MapGet(index, GetAttribute(element, "dataFilePath")[1])

\* the fields of the view and the container when a cycle of onDataUpdated ends
CycleEnds(children, cl, ls, vp, rps, trace, evc) ==
  /\ containerEl' = children
  /\ cleanup' = cl
  /\ listeners' = ls
  /\ viewport' = vp
  /\ renderedPoints' = rps
  /\ calls' = trace
  /\ eventConfig' = evc
  /\ activeTooltip' = NULL
  /\ lastEvent' = NULL

\* renderEmptyState(message), on which onDataUpdated returns
RenderEmptyState(message, ls, trace) ==
  CycleEnds(<< CreateEmptyState(message) >>, NULL, ls, viewport,
            renderedPoints, Append(trace, "renderEmptyState"), NULL)

\* a warning whatever the number of skipped entries
SkippedWarningsAlways(skipped) ==
  << CreateSkippedWarning(Len(skipped)) >>

\* renderChart: the warning appended when entries were skipped
SkippedWarnings(skipped) ==
  IF Len(skipped) > 0 THEN << CreateSkippedWarning(Len(skipped)) >>
                      ELSE << >>

\* renderChart(config, extraction, bounds), vp being the viewport that
\* updateViewportFromContainer has set: the chart, the cached points, the
\* listeners of attachPointEvents and attachWheelZoom, the warning
RenderChart(cfg, ex, b, ls, vp, trace) ==
  CycleEnds(
    << CreateChartSvg(ex.points, b, ex.categories,
         [viewport |-> vp, pointConfig |-> DEFAULT_POINT_CONFIG,
          palette |-> DEFAULT_PALETTE, showGrid |-> TRUE,
          xLabel |-> PropertyIdToLabel(cfg.xAxis),
          yLabel |-> PropertyIdToLabel(cfg.yAxis)]) >>
    \o SkippedWarnings(ex.skipped),
    Some({"cleanupEvents", "cleanupZoom"}),
    (ls \cup ListenersOn("svg", PointEventTypes))
        \cup ListenersOn("svg", WheelEventTypes),
    vp,
    TransformPointsToScreen(ex.points, b, CalculateInnerDimensions(vp),
      CreateCategoryColorMap(ex.categories, DEFAULT_PALETTE), DEFAULT_PALETTE),
    Append(trace, "renderChart"),
    Some([pointIndex |->
            CreatePointIndex(
              TransformPointsToScreen(ex.points, b,
                CalculateInnerDimensions(vp),
                CreateCategoryColorMap(ex.categories, DEFAULT_PALETTE),
                DEFAULT_PALETTE)),
          xLabel |-> PropertyIdToLabel(cfg.xAxis),
          yLabel |-> PropertyIdToLabel(cfg.yAxis)]))

\* onDataUpdated from the bounds on
CycleFromBounds(cfg, rect, ls, ex, b, trace) ==
  IF b = NULL THEN RenderEmptyState(STR_UnableToCalculate, ls, trace)
  ELSE RenderChart(cfg, ex, b[1], ls, ViewportFromContainer(rect), trace)

\* onDataUpdated from the extraction on; a throw of the extraction leaves
\* the emptied container
CycleFromExtraction(cfg, rect, ls, extracted, trace) ==
  IF extracted.type = "throw" THEN
    CycleEnds(<< >>, NULL, ls, viewport, renderedPoints, trace, NULL)
  ELSE IF Len(extracted.value.points) = 0 THEN
    RenderEmptyState(NoPointsMessage(Len(extracted.value.skipped)), ls, trace)
  ELSE
    CycleFromBounds(cfg, rect, ls, extracted.value,
      CalculatePlotBounds(extracted.value.points, DefaultPaddingPercent),
      Append(trace, "calculatePlotBounds"))

\* a cycle that tests the axes only after the extraction
CycleFromConfigExtractFirst(cfg, groups, rect, ls) ==
  CycleFromExtraction(cfg, rect, ls,
    ExtractDataFromEntries(FlattenGroupedData(groups), cfg),
    << "readConfig", "flattenGroupedData", "extractDataFromEntries" >>)

\* onDataUpdated from the configuration on: ls are the listeners left by
\* the cleanup of the previous cycle
CycleFromConfig(cfg, groups, rect, ls) ==
  IF cfg.xAxis = NULL \/ cfg.yAxis = NULL THEN
    RenderEmptyState(STR_ConfigureAxes, ls, << "readConfig" >>)
  ELSE
    CycleFromExtraction(cfg, rect, ls,
      ExtractDataFromEntries(FlattenGroupedData(groups), cfg),
      << "readConfig", "flattenGroupedData", "extractDataFromEntries" >>)

---------------------------------------------------------------------------
(* The inputs the calls are studied on *)

\* 'note.effort', 'note.value', 'note.status': the property ids configured
ID_X ==
  <<"n","o","t","e",".","e","f","f","o","r","t">>

ID_Y ==
  <<"n","o","t","e",".","v","a","l","u","e">>

ID_C ==
  <<"n","o","t","e",".","s","t","a","t","u","s">>

PropertyIds ==
  {ID_X, ID_Y, ID_C}

\* thrown errors: Error("boom"), and a TypeError without message
ErrorBoom ==
  [name |-> <<"E","r","r","o","r">>, message |-> <<"b","o","o","m">>]

ErrorType ==
  [name |-> <<"T","y","p","e","E","r","r","o","r">>, message |-> <<>>]

\* a Value wrapper that is not empty and whose toString() gives str
Wrapped(str) ==
  Field("object", TRUE, "false", FALSE, str, Whole(0), FALSE, NoError)

\* a Value wrapper that says it is empty (the NullValue of the API)
EmptyValue ==
  Field("object", TRUE, "true", FALSE, <<"n","u","l","l">>, Whole(0), FALSE, NoError)

NullField ==
  Field("null", FALSE, "false", FALSE, <<>>, Whole(0), FALSE, NoError)

UndefinedField ==
  Field("undefined", FALSE, "false", FALSE, <<>>, Whole(0), FALSE, NoError)

\* getValue throws
ThrowingField(error) ==
  Field("throws", FALSE, "false", FALSE, <<>>, Whole(0), FALSE, error)

\* isEmpty() throws
IsEmptyThrowsField(error) ==
  Field("object", TRUE, "throws", FALSE, <<"1">>, Whole(0), FALSE, error)

\* toString() throws
ToStringThrowsField(error) ==
  Field("object", TRUE, "false", TRUE, <<>>, Whole(0), FALSE, error)

\* an object without an isEmpty method
PlainObject(str) ==
  Field("object", FALSE, "false", FALSE, str, Whole(0), FALSE, NoError)

RawNumber(num) ==
  Field("number", FALSE, "false", FALSE, <<>>, num, FALSE, NoError)

RawBoolean(bool) ==
  Field("boolean", FALSE, "false", FALSE, <<>>, Whole(0), bool, NoError)

RawString(str) ==
  Field("string", FALSE, "false", FALSE, str, Whole(0), FALSE, NoError)

\* string forms a property value may have
StringForms ==
  <<
     <<"2">>,   \* '2'
     <<"8">>,   \* '8'
     <<"5">>,   \* '5'
     <<"0">>,   \* '0'
     <<"-","3">>,   \* '-3'
     <<"+","7">>,   \* '+7'
     <<"2",".","5">>,   \* '2.5'
     <<".","5">>,   \* '.5'
     <<"5",".">>,   \* '5.'
     <<"0","0","7">>,   \* '007'
     <<"-","0">>,   \* '-0'
     <<"1","e","2">>,   \* '1e2'
     <<"1","E","-","2">>,   \* '1E-2'
     <<"1","e","+","2">>,   \* '1e+2'
     <<"1","e","9","9","9">>,   \* '1e999'
     <<"-","1","e","9","9","9">>,   \* '-1e999'
     <<"1","e","-","9","9","9">>,   \* '1e-999'
     <<"I","n","f","i","n","i","t","y">>,   \* 'Infinity'
     <<"-","I","n","f","i","n","i","t","y">>,   \* '-Infinity'
     <<"+","I","n","f","i","n","i","t","y">>,   \* '+Infinity'
     <<"i","n","f","i","n","i","t","y">>,   \* 'infinity'
     <<"b","a","d">>,   \* 'bad'
     <<>>,   \* ''
     <<" ">>,   \* ' '
     <<" ","1","2"," ">>,   \* ' 12 '
     <<"\t","5","\n">>,   \* '\t5\n'
     <<"0","x","1","F">>,   \* '0x1F'
     <<"0","b","1","0","1">>,   \* '0b101'
     <<"0","o","1","7">>,   \* '0o17'
     <<"0","x">>,   \* '0x'
     <<"-","0","x","1","0">>,   \* '-0x10'
     <<"0","b","2">>,   \* '0b2'
     <<"1","2","p","x">>,   \* '12px'
     <<"N","a","N">>,   \* 'NaN'
     <<"-","-","1">>,   \* '--1'
     <<"1","e">>,   \* '1e'
     <<"e","5">>,   \* 'e5'
     <<".">>,   \* '.'
     <<"1",",","5">>,   \* '1,5'
     <<"1"," ","2">>,   \* '1 2'
     <<"1",".","2",".","3">>,   \* '1.2.3'
     <<"t","o","d","o">>   \* 'todo'
  >>

\* what a property lookup may yield, for the extractor calls
FieldPalette ==
  {Wrapped(StringForms[i]) : i \in 1..Len(StringForms)}
  \cup {NullField, UndefinedField, EmptyValue,
        ThrowingField(ErrorBoom), ThrowingField(ErrorType),
        IsEmptyThrowsField(ErrorBoom), ToStringThrowsField(ErrorType),
        PlainObject(<<"[","o","b","j","e","c","t"," ","O","b","j","e","c","t","]">>),
        PlainObject(<<"4","2">>),
        RawNumber(Whole(0)), RawNumber(Whole(5)), RawNumber(Whole(-12)),
        RawNumber(NaN), RawNumber(PosInfinity),
        RawBoolean(TRUE), RawBoolean(FALSE),
        RawString(<<>>), RawString(<<"4","2">>), RawString(<<"a","b","c">>)}

\* the files of the entries: host objects, read only for path and basename
Files ==
  << [path |-> "notes/a.md", basename |-> "a"],
     [path |-> "notes/b.md", basename |-> "b"],
     [path |-> "c.md",       basename |-> "c"],
     [path |-> "work/d.md",  basename |-> "d"],
     [path |-> "work/e.md",  basename |-> "e"],
     [path |-> "work/f.md",  basename |-> "f"],
     [path |-> "g.md",       basename |-> "g"],
     [path |-> "h.md",       basename |-> "h"] >>

\* the entry of file i whose properties ID_X, ID_Y, ID_C yield x, y, c
Entry(i, x, y, c) ==
  [file |-> Files[i], fields |-> [id \in PropertyIds |->
                 IF id = ID_X THEN x ELSE IF id = ID_Y THEN y ELSE c]]

\* every combination of configured and unconfigured properties
Configs ==
  [xAxis : {NULL, Some(ID_X)}, yAxis : {NULL, Some(ID_Y)}, colorBy : {NULL, Some(ID_C)}]

\* what the X, Y and colour properties of the entry of an entryToPoint call yield
XPalette ==
  {Wrapped(<<"2">>), Wrapped(<<"b","a","d">>), Wrapped(<<"I","n","f","i","n","i","t","y">>), NullField, EmptyValue,
   ThrowingField(ErrorBoom), ToStringThrowsField(ErrorType), RawNumber(Whole(0))}

YPalette ==
  {Wrapped(<<"8">>), Wrapped(<<"2",".","5">>), Wrapped(<<"b","a","d">>), Wrapped(<<"-","1","e","9","9","9">>), NullField,
   UndefinedField, ThrowingField(ErrorType), IsEmptyThrowsField(ErrorBoom)}

CPalette ==
  {Wrapped(<<"t","o","d","o">>), Wrapped(<<>>), NullField, EmptyValue,
   ThrowingField(ErrorBoom), ToStringThrowsField(ErrorBoom)}

\* the property triples of the entries of an extractDataFromEntries call
BatchPalette ==
  << <<Wrapped(<<"2">>), Wrapped(<<"8">>), Wrapped(<<"t","o","d","o">>)>>,
     <<Wrapped(<<"b","a","d">>), Wrapped(<<"5">>), UndefinedField>>,
     <<Wrapped(<<"5">>), NullField, UndefinedField>>,
     <<Wrapped(<<"5">>), Wrapped(<<"3">>), Wrapped(<<"d","o","n","e">>)>>,
     <<ThrowingField(ErrorBoom), Wrapped(<<"8">>), Wrapped(<<"t","o","d","o">>)>>,
     <<Wrapped(<<"2">>), Wrapped(<<"I","n","f","i","n","i","t","y">>), Wrapped(<<"d","o","n","e">>)>>,
     <<EmptyValue, Wrapped(<<"b","a","d">>), NullField>>,
     <<Wrapped(<<"1">>), Wrapped(<<"1">>), ThrowingField(ErrorType)>>,
     <<Wrapped(<<"-","3">>), EmptyValue, Wrapped(<<"d","o","n","e">>)>>,
     <<NullField, UndefinedField, Wrapped(<<"t","o","d","o">>)>> >>

\* the configurations of an extractDataFromEntries call
BatchConfigs ==
  {[xAxis |-> Some(ID_X), yAxis |-> Some(ID_Y), colorBy |-> Some(ID_C)],
   [xAxis |-> Some(ID_X), yAxis |-> Some(ID_Y), colorBy |-> NULL],
   [xAxis |-> Some(ID_X), yAxis |-> NULL,       colorBy |-> Some(ID_C)],
   [xAxis |-> NULL,       yAxis |-> Some(ID_Y), colorBy |-> Some(ID_C)]}

\* the entry lists of length n: the i-th entry has file i
EntryLists(n) ==
  {[i \in 1..n |-> Entry(i, BatchPalette[choice[i]][1], BatchPalette[choice[i]][2],
                         BatchPalette[choice[i]][3])] :
     choice \in [1..n -> 1..Len(BatchPalette)]}

\* category labels 'A', 'B', 'C', and no category
CategoryPalette ==
  {NULL, Some(<<"A">>), Some(<<"B">>), Some(<<"C">>)}

\* the point lists of length n with the given x, y and category per position
PointOf(i, x, y, category) ==
  ScatterPoint(x, y, category, Entry(i, NullField, NullField, NullField))

\* values plotted on an axis: ordinary ones, 2^70 (next to which 1 is below
\* half a unit in the last place) and +-2^1023 (whose difference overflows)
ValuePalette ==
  {Whole(-50), Whole(0), Whole(100),
   Scaled(1, 1, 70), Scaled(1, 1, 1023), Scaled(-1, 1, 1023)}

YValuePalette ==
  {Whole(0), Whole(200)}

\* padding fractions: 0, the default 0.05, 0.1, and a negative one
PaddingPalette ==
  {Whole(0), DefaultPaddingPercent, Fin(1, 10), Fin(-1, 2)}

\* a [min, max] pair
Interval(min, max) ==
  [min |-> min, max |-> max]

\* 2^90, next to which the ordinary values are below half a unit in the last
\* place
Huge ==
  Scaled(1, 1, 90)

\* domains of a scale: ordinary, negative, degenerate, descending, and ones
\* with an end at 2^90
DomainPalette ==
  {Interval(Whole(0), Whole(100)), Interval(Whole(-50), Whole(50)),
   Interval(Whole(50), Whole(50)), Interval(Whole(100), Whole(0)),
   Interval(Whole(0), Huge), Interval(Huge, Whole(0))}

\* ranges of a scale: ordinary, inverted, degenerate, one starting at 2^90,
\* and one whose span overflows
RangePalette ==
  {Interval(Whole(0), Whole(500)), Interval(Whole(500), Whole(0)),
   Interval(Whole(100), Whole(600)), Interval(Whole(50), Whole(50)),
   Interval(Huge, Whole(100)),
   Interval(Scaled(-1, 1, 1023), Scaled(1, 1, 1023))}

\* numbers handed to a scale: inside, at the ends of, and outside the domains,
\* and the two that are not finite
ScaleInputPalette ==
  {Whole(-50), Whole(-20), Whole(0), Whole(25), Whole(50), Whole(100),
   Whole(120), Whole(250), Whole(500), Huge, PosInfinity, NaN}

\* category labels of the colour calls
LabelPalette ==
  {<<"A">>, <<"B">>, <<"C">>, <<"D">>}

\* palettes: the one of the tests, shorter ones, an empty one, one whose first
\* colour is the empty string, and the default
ColorPalettes ==
  {[fallback |-> <<"g", "r", "a", "y">>, colors |-> << <<"r", "e", "d">>, <<"g", "r", "e", "e", "n">>, <<"b", "l", "u", "e">> >>],
   [fallback |-> <<"g", "r", "a", "y">>, colors |-> << <<"r", "e", "d">>, <<"g", "r", "e", "e", "n">> >>],
   [fallback |-> <<"g", "r", "a", "y">>, colors |-> << <<"r", "e", "d">> >>],
   [fallback |-> <<"g", "r", "a", "y">>, colors |-> << >>],
   [fallback |-> <<"g", "r", "a", "y">>, colors |-> << <<>>, <<"r", "e", "d">> >>],
   DEFAULT_PALETTE}

\* points whose colour is looked up: no category, categories of the lists,
\* and one that is in no list
ColorPointPalette ==
  {PointOf(1, Whole(1), Whole(1), c) :
     c \in {NULL, Some(<<"A">>), Some(<<"D">>), Some(<<"Z">>)}}

\* the points handed to the transformation: at the ends of, inside and
\* outside the bounds, with and without category
RenderPointPalette ==
  {PointOf(1, Whole(0), Whole(0), NULL),
   PointOf(2, Whole(100), Whole(100), Some(<<"A">>)),
   PointOf(3, Whole(50), Whole(50), NULL),
   PointOf(4, Whole(25), Whole(75), Some(<<"A">>)),
   PointOf(5, Whole(-50), Whole(200), Some(<<"Z">>)),
   PointOf(6, Whole(50), Whole(0), Some(<<"B">>))}

\* bounds of an axis: ordinary, negative minimum, wider, and of no width
AxisBoundsPalette ==
  {Interval(Whole(0), Whole(100)), Interval(Whole(-50), Whole(50)),
   Interval(Whole(0), Whole(200)), Interval(Whole(50), Whole(50))}

\* inner dimensions: those of the tests and those of the default viewport
InnerPalette ==
  {[width |-> Whole(500), height |-> Whole(400)],
   [width |-> Whole(730), height |-> Whole(540)]}

\* bounds handed to generateTicks: those of the tests, padded ones, bounds of
\* no width, bounds with an end at -2^90, and bounds whose range overflows
TickBoundsPalette ==
  {Interval(Whole(0), Whole(100)), Interval(Whole(10), Whole(50)),
   Interval(Whole(-50), Whole(50)), Interval(Whole(-5), Whole(105)),
   Interval(Fin(-21, 2), Fin(441, 2)), Interval(Whole(0), Whole(1)),
   Interval(Whole(-50), Whole(200)), Interval(Whole(50), Whole(50)),
   Interval(Neg(Huge), Whole(100)),
   Interval(Scaled(-1, 1, 1023), Scaled(1, 1, 1023))}

\* what config.get may yield for a key: nothing, a number, '' and an id
ConfigUndefined ==
  ConfigValue("undefined", <<>>)

ConfigNumber ==
  ConfigValue("number", <<>>)

ConfigString(str) ==
  ConfigValue("string", str)

\* the view configurations of the host
ViewConfigPalette ==
  [xAxis   : {ConfigUndefined, ConfigNumber, ConfigString(<<>>),
              ConfigString(ID_X)},
   yAxis   : {ConfigUndefined, ConfigString(<<>>), ConfigString(ID_Y)},
   colorBy : {ConfigUndefined, ConfigString(ID_C)}]

\* a group of the host's data
Group(es) ==
  [entries |-> es]

\* the entry of file i with the properties of row k of BatchPalette
BatchEntry(i, k) ==
  Entry(i, BatchPalette[k][1], BatchPalette[k][2], BatchPalette[k][3])

\* the data of the host: no group; two plottable entries, one without
\* category; two groups with a skipped entry; one plottable entry; an empty
\* group and one skipped entry
GroupedDataPalette ==
  { << >>,
    << Group(<< BatchEntry(1, 1), BatchEntry(2, 8) >>) >>,
    << Group(<< BatchEntry(1, 1), BatchEntry(2, 2) >>),
       Group(<< BatchEntry(3, 4) >>) >>,
    << Group(<< BatchEntry(1, 4) >>) >>,
    << Group(<< >>), Group(<< BatchEntry(1, 3) >>) >> }

\* the rectangles of the container: not laid out, and 900 x 100 (a height
\* that is not above 100)
RectPalette ==
  { [width |-> Whole(0),   height |-> Whole(0)],
    [width |-> Whole(900), height |-> Whole(100)] }

---------------------------------------------------------------------------
(* The calls as state machines: Init draws the arguments, one action per call *)

\* extractNumericValue(entry, propertyId)
ExtractNumericCall ==
  /\ pc = "start"
  /\ propertyId /= NULL
  /\ numResult' = ExtractNumericValue(entry, propertyId[1])
  /\ pc' = "numeric"
  /\ UNCHANGED << propertyId, catResult, entry, config, pointResult, entries,
                  extraction, points, categories, values, paddingPercent,
                  axisBounds, plotBounds >>
  /\ UNCHANGED << scaleVars, renderVars, viewVars, timerVars >>

\* extractCategoryValue(entry, propertyId)
ExtractCategoryCall ==
  /\ pc = "start"
  /\ catResult' = ExtractCategoryValue(entry, propertyId)
  /\ pc' = "category"
  /\ UNCHANGED << propertyId, numResult, entry, config, pointResult, entries,
                  extraction, points, categories, values, paddingPercent,
                  axisBounds, plotBounds >>
  /\ UNCHANGED << scaleVars, renderVars, viewVars, timerVars >>

\* entryToPoint(entry, config)
EntryToPointCall ==
  /\ pc = "start"
  /\ pointResult' = EntryToPoint(entry, config)
  /\ pc' = "point"
  /\ UNCHANGED << propertyId, numResult, catResult, entry, config, entries,
                  extraction, points, categories, values, paddingPercent,
                  axisBounds, plotBounds >>
  /\ UNCHANGED << scaleVars, renderVars, viewVars, timerVars >>

\* extractDataFromEntries(entries, config)
ExtractDataCall ==
  /\ pc = "start"
  /\ extraction' = ExtractDataFromEntries(entries, config)
  /\ pc' = "extracted"
  /\ UNCHANGED << propertyId, numResult, catResult, entry, config, pointResult,
                  entries, points, categories, values, paddingPercent,
                  axisBounds, plotBounds >>
  /\ UNCHANGED << scaleVars, renderVars, viewVars, timerVars >>

\* extractCategories(points)
ExtractCategoriesCall ==
  /\ pc = "start"
  /\ categories' = ExtractCategories(points)
  /\ pc' = "categories"
  /\ UNCHANGED << propertyId, numResult, catResult, entry, config, pointResult,
                  entries, extraction, points, values, paddingPercent,
                  axisBounds, plotBounds >>
  /\ UNCHANGED << scaleVars, renderVars, viewVars, timerVars >>

\* calculateAxisBounds(values, paddingPercent)
CalculateAxisBoundsCall ==
  /\ pc = "start"
  /\ axisBounds' = CalculateAxisBounds(values, paddingPercent)
  /\ pc' = "axis"
  /\ UNCHANGED << propertyId, numResult, catResult, entry, config, pointResult,
                  entries, extraction, points, categories, values,
                  paddingPercent, plotBounds >>
  /\ UNCHANGED << scaleVars, renderVars, viewVars, timerVars >>

\* calculatePlotBounds(points, paddingPercent)
CalculatePlotBoundsCall ==
  /\ pc = "start"
  /\ plotBounds' = CalculatePlotBounds(points, paddingPercent)
  /\ pc' = "plot"
  /\ UNCHANGED << propertyId, numResult, catResult, entry, config, pointResult,
                  entries, extraction, points, categories, values,
                  paddingPercent, axisBounds >>
  /\ UNCHANGED << scaleVars, renderVars, viewVars, timerVars >>

\* createLinearScale(domainMin, domainMax, rangeMin, rangeMax)(value)
CreateLinearScaleCall ==
  /\ pc = "start"
  /\ scaleOutput' = CreateLinearScale(scaleDomain.min, scaleDomain.max,
                                      scaleRange.min, scaleRange.max, scaleInput)
  /\ pc' = "scaled"
  /\ UNCHANGED << scaleDomain, scaleRange, scaleInput, inverseOutput >>
  /\ UNCHANGED << dataVars, renderVars, viewVars, timerVars >>

\* createInverseLinearScale(domainMin, domainMax, rangeMin, rangeMax)(value),
\* on the input or, after the scale has been applied, on its result
CreateInverseLinearScaleCall ==
  /\ pc \in {"start", "scaled"}
  /\ inverseOutput' =
       CreateInverseLinearScale(scaleDomain.min, scaleDomain.max,
                                scaleRange.min, scaleRange.max,
                                IF pc = "scaled" THEN scaleOutput ELSE scaleInput)
  /\ pc' = IF pc = "scaled" THEN "roundtrip" ELSE "inverted"
  /\ UNCHANGED << scaleDomain, scaleRange, scaleInput, scaleOutput >>
  /\ UNCHANGED << dataVars, renderVars, viewVars, timerVars >>

\* createCategoryColorMap(categories, palette)
CreateCategoryColorMapCall ==
  /\ pc = "start"
  /\ colorMap' = CreateCategoryColorMap(colorCategories, palette)
  /\ pc' = "colormap"
  /\ UNCHANGED << palette, colorCategories, colorPoint, pointColor,
                  renderBounds, inner, rendered, tickBounds, tickCount,
                  ticks >>
  /\ UNCHANGED << dataVars, scaleVars, viewVars, timerVars >>

\* getPointColor(point, colorMap, palette.fallback), on the map built before
GetPointColorCall ==
  /\ pc = "colormap"
  /\ pointColor' = Some(GetPointColor(colorPoint, colorMap, palette.fallback))
  /\ pc' = "color"
  /\ UNCHANGED << palette, colorCategories, colorMap, colorPoint,
                  renderBounds, inner, rendered, tickBounds, tickCount,
                  ticks >>
  /\ UNCHANGED << dataVars, scaleVars, viewVars, timerVars >>

\* transformPointsToScreen(points, bounds, inner, colorMap, palette)
TransformPointsToScreenCall ==
  /\ pc = "start"
  /\ rendered' = TransformPointsToScreen(points, renderBounds, inner, colorMap,
                                         palette)
  /\ pc' = "rendered"
  /\ UNCHANGED << palette, colorCategories, colorMap, colorPoint, pointColor,
                  renderBounds, inner, tickBounds, tickCount, ticks >>
  /\ UNCHANGED << dataVars, scaleVars, viewVars, timerVars >>

\* generateTicks(bounds, count), count being the default when left out
GenerateTicksCall ==
  /\ pc = "start"
  /\ ticks' = GenerateTicks(tickBounds,
                            IF tickCount = NULL THEN DefaultTickCount
                            ELSE tickCount[1])
  /\ pc' = "ticks"
  /\ UNCHANGED << palette, colorCategories, colorMap, colorPoint, pointColor,
                  renderBounds, inner, rendered, tickBounds, tickCount >>
  /\ UNCHANGED << dataVars, scaleVars, viewVars, timerVars >>

\* the view of one note with a chart of two notes: the configurations, the
\* data and the rectangles of a host whose container is resized
ResizeInputs ==
  [configs |-> {[xAxis |-> ConfigUndefined, yAxis |-> ConfigUndefined,
                 colorBy |-> ConfigUndefined],
                [xAxis |-> ConfigString(ID_X), yAxis |-> ConfigString(ID_Y),
                 colorBy |-> ConfigUndefined]},
   data    |-> {<< >>, << Group(<< BatchEntry(1, 1), BatchEntry(2, 8) >>) >>},
   rects   |-> RectPalette]

\* the same view in a container that keeps its size, the data being two
\* notes of different categories
PointerInputs ==
  [configs |-> {[xAxis |-> ConfigUndefined, yAxis |-> ConfigUndefined,
                 colorBy |-> ConfigUndefined],
                [xAxis |-> ConfigString(ID_X), yAxis |-> ConfigString(ID_Y),
                 colorBy |-> ConfigString(ID_C)]},
   data    |-> {<< Group(<< BatchEntry(1, 1), BatchEntry(2, 8) >>) >>},
   rects   |-> {[width |-> Whole(0), height |-> Whole(0)]}]

\* the configurations, the data and the container rectangles that the host
\* supplies
HostInputs ==
  IF hostInputs = "palettes"
    THEN [configs |-> ViewConfigPalette, data |-> GroupedDataPalette,
          rects |-> RectPalette]
  ELSE IF hostInputs = "resize" THEN ResizeInputs
  ELSE PointerInputs

\* onDataUpdated() without this.cleanup?.(): the listeners of the previous
\* chart stay
RunOnDataUpdatedNoCleanup(cfg, groups, rect) ==
  CycleFromConfig(ReadConfig(cfg), groups, rect, Detached(listeners))

\* onDataUpdated(): cleanup?.(), cleanup = null, containerEl.empty(),
\* readConfig, and the cycle from the configuration on
RunOnDataUpdated(cfg, groups, rect) ==
  CycleFromConfig(ReadConfig(cfg), groups, rect,
                  Detached(AfterCleanup(cleanup, listeners)))

\* renderChart(points, ..., bounds, ...) as far as the viewport and the
\* rendered points go: updateViewportFromContainer, then
\* transformPointsToScreen on the inner dimensions of the viewport
RenderPointsCall ==
  /\ pc = "plot"
  /\ plotBounds /= NULL
  /\ viewport' = ViewportFromContainer(containerRect)
  /\ renderedPoints' =
       TransformPointsToScreen(points, plotBounds[1],
         CalculateInnerDimensions(ViewportFromContainer(containerRect)),
         CreateCategoryColorMap(categories, DEFAULT_PALETTE), DEFAULT_PALETTE)
  /\ pc' = "rendered"
  /\ UNCHANGED << viewConfig, groupedData, containerRect, containerEl, cleanup,
                  listeners, calls, eventConfig, activeTooltip, lastEvent,
                  hostInputs >>
  /\ UNCHANGED << dataVars, scaleVars, renderVars, timerVars >>

\* onDataUpdated(), which the host calls when its data, its configuration or
\* the size of the container has changed (one of them at a time)
OnDataUpdated ==
  /\ pc = "idle"
  /\ \E cfg \in HostInputs.configs, groups \in HostInputs.data,
        rect \in HostInputs.rects :
       /\ \/ groups = groupedData /\ rect = containerRect
          \/ cfg = viewConfig /\ rect = containerRect
          \/ cfg = viewConfig /\ groups = groupedData
       /\ viewConfig' = cfg
       /\ groupedData' = groups
       /\ containerRect' = rect
       /\ RunOnDataUpdated(cfg, groups, rect)
  /\ pc' = "idle"
  /\ UNCHANGED << hostInputs, dataVars, scaleVars, renderVars, timerVars >>

\* the delay of the resize timer, in ms
ResizeDelay ==
  100

\* the steps in which time passes, in ms
TimeSteps ==
  {10, 30, 100}

\* a timer id that no pending timer has and that resizeTimeout does not hold
FreshTimerId ==
  CHOOSE id \in 1..(Cardinality(timers) + 2) :
    /\ \A t \in timers : t.id /= id
    /\ resizeTimeout /= Some(id)

\* window.clearTimeout(id) when id is not null
ClearTimeout(id, ts) ==
  IF id = NULL THEN ts ELSE {t \in ts : t.id /= id[1]}

\* the callback of the ResizeObserver that never clears the pending timer
ResizeTimersNoClear(id, ts) ==
  ts

\* the callback of the ResizeObserver: the pending timer is cleared
\* (if (this.resizeTimeout !== null) window.clearTimeout(this.resizeTimeout))
ResizeTimers(id, ts) ==
  ClearTimeout(id, ts)

\* the container is resized and the ResizeObserver notifies the view: the
\* pending timer is cleared and a timer of ResizeDelay ms is set
ResizeObserved ==
  /\ observing
  /\ \E rect \in HostInputs.rects : containerRect' = rect
  /\ timers' = ResizeTimers(resizeTimeout, timers)
                  \cup {[id |-> FreshTimerId, remaining |-> ResizeDelay]}
  /\ resizeTimeout' = Some(FreshTimerId)
  /\ sinceResize' = [ms |-> 0, calls |-> 0, burst |-> timers /= {}]
  /\ UNCHANGED << pc, viewConfig, groupedData, containerEl, cleanup, listeners,
                  viewport, renderedPoints, calls, eventConfig, activeTooltip,
                  lastEvent, hostInputs, observing >>
  /\ UNCHANGED << dataVars, scaleVars, renderVars >>

\* time passes while a timer is pending, not beyond the time the timer is due
Advance ==
  /\ timers /= {}
  /\ \E dt \in TimeSteps :
       /\ \A t \in timers : dt <= t.remaining
       /\ timers' = {[t EXCEPT !.remaining = @ - dt] : t \in timers}
       /\ sinceResize' = [sinceResize EXCEPT !.ms = @ + dt]
  /\ UNCHANGED << pc, observing, resizeTimeout >>
  /\ UNCHANGED << dataVars, scaleVars, renderVars, viewVars >>

\* a timer set by the resize callback is due: () => { this.onDataUpdated() }
ResizeTimerFires ==
  /\ \E t \in timers :
       /\ t.remaining = 0
       /\ timers' = timers \ {t}
  /\ RunOnDataUpdated(viewConfig, groupedData, containerRect)
  /\ sinceResize' = [sinceResize EXCEPT !.calls = @ + 1]
  /\ UNCHANGED << pc, viewConfig, groupedData, containerRect, hostInputs,
                  observing, resizeTimeout >>
  /\ UNCHANGED << dataVars, scaleVars, renderVars >>

\* a mouse event of a type on a target element, not yet handled; modEvent is
\* what Keymap.isModEvent gives for it
MouseEvent(type, target, button, modEvent) ==
  [type |-> type, target |-> target, button |-> button, modEvent |-> modEvent,
   defaultPrevented |-> FALSE, propagationStopped |-> FALSE]

\* what the handling of an event did: the event as the handler left it, the
\* calls of app.workspace.openLinkText and of app.workspace.trigger
Handled(event, opened, triggered) ==
  [event |-> event, opened |-> opened, triggered |-> triggered]

\* target.classList.contains("scatter-point")
IsPointElement(target) ==
  target.class = "scatter-point"

\* a click handler that opens the note for every button
CreateClickHandlerAnyButton(point, event) ==
  Handled([event EXCEPT !.defaultPrevented = TRUE,
                        !.propagationStopped = TRUE],
          << [linktext |-> point.file.path, sourcePath |-> "",
              newLeaf |-> event.modEvent] >>, << >>)

\* the function createClickHandler returns, applied to a point and an event
CreateClickHandler(point, event) ==
  IF event.button /= 0 /\ event.button /= 1 THEN Handled(event, << >>, << >>)
  ELSE Handled([event EXCEPT !.defaultPrevented = TRUE,
                             !.propagationStopped = TRUE],
               << [linktext |-> point.file.path, sourcePath |-> "",
                   newLeaf |-> event.modEvent] >>, << >>)

\* handleClick of attachPointEvents
HandleClick(event, evc) ==
  IF ~IsPointElement(event.target) THEN Handled(event, << >>, << >>)
  ELSE IF FindPointFromElement(event.target, evc.pointIndex) = NULL
    THEN Handled(event, << >>, << >>)
  ELSE CreateClickHandler(
         FindPointFromElement(event.target, evc.pointIndex)[1], event)

\* the function createHoverHandler returns: the hover-link it triggers
CreateHoverHandler(point, event) ==
  Handled(event, << >>,
          << [name |-> "hover-link", source |-> "scatter-plot",
              linktext |-> point.file.path] >>)

\* circle.setAttribute("r", ...) and circle.setAttribute("opacity", ...) on
\* the circle of the points layer that is the target
CircleWith(el, target, r, opacity) ==
  IF el = target THEN [el EXCEPT !.r = r, !.opacity = opacity] ELSE el

GroupWith(g, target, r, opacity) ==
  IF g.class = "scatter-points"
    THEN [g EXCEPT !.children =
            [i \in 1..Len(g.children) |->
               CircleWith(g.children[i], target, r, opacity)]]
    ELSE g

ChildWith(el, target, r, opacity) ==
  IF el.tag = "svg"
    THEN [el EXCEPT !.children =
            [k \in 1..Len(el.children) |->
               GroupWith(el.children[k], target, r, opacity)]]
    ELSE el

\* applyHoverEffect(circle, config), on the children of the container
ApplyHoverEffect(children, circle, pointConfig) ==
  [j \in 1..Len(children) |->
     ChildWith(children[j], circle, pointConfig.hoverRadius, Whole(1))]

\* removeHoverEffect(circle, config), on the children of the container
RemoveHoverEffect(children, circle, pointConfig) ==
  [j \in 1..Len(children) |->
     ChildWith(children[j], circle, pointConfig.radius, pointConfig.opacity)]

\* createTooltip(data): the title, the line of X, the line of Y and, for a
\* truthy category, the line of the category; the numbers are the ones that
\* formatValue formats
CreateTooltip(data) ==
  [tag |-> "div", class |-> "scatter-tooltip", title |-> data.label,
   values |->
     << << data.xLabel, data.x >>, << data.yLabel, data.y >> >>
     \o (IF data.category /= NULL /\ data.category /= Some(<<>>)
           THEN << << <<"C","a","t","e","g","o","r","y">>, data.category[1] >> >>
           ELSE << >>)]

\* the TooltipData of a point in handleMouseEnter
TooltipDataOf(point, evc) ==
  [label |-> point.label, x |-> point.x, y |-> point.y,
   xLabel |-> evc.xLabel, yLabel |-> evc.yLabel, category |-> point.category]

\* element.remove() of the element tooltip[1], no element when tooltip is null
RemoveElement(children, tooltip) ==
  IF tooltip = NULL \/ \A j \in 1..Len(children) : children[j] /= tooltip[1]
    THEN children
    ELSE [j \in 1..(Len(children) - 1) |->
            IF j < (CHOOSE k \in 1..Len(children) :
                      /\ children[k] = tooltip[1]
                      /\ \A m \in 1..(k - 1) : children[m] /= tooltip[1])
              THEN children[j] ELSE children[j + 1]]

\* handleMouseEnter that leaves the tooltip shown before where it is
EnterContainerKeepTooltip(children, point, target, evc, tooltip) ==
  Append(ApplyHoverEffect(children, target, DEFAULT_POINT_CONFIG),
         CreateTooltip(TooltipDataOf(point, evc)))

\* handleMouseEnter of attachPointEvents on an indexed point, as to the
\* container: the hover effect, the removal of the tooltip shown before and
\* the new tooltip, appended
EnterContainer(children, point, target, evc, tooltip) ==
  Append(RemoveElement(ApplyHoverEffect(children, target,
                                        DEFAULT_POINT_CONFIG), tooltip),
         CreateTooltip(TooltipDataOf(point, evc)))

\* handleMouseLeave of attachPointEvents on a point element, as to the
\* container: the hover effect is removed and the tooltip with it
LeaveContainer(children, target, tooltip) ==
  RemoveElement(RemoveHoverEffect(children, target, DEFAULT_POINT_CONFIG),
                tooltip)

\* a listener of the type is attached to the svg in the container
Listening(type) ==
  [target |-> "svg", type |-> type] \in listeners

\* elements of the chart an event may have as target: the svg itself, and
\* elements of the class of the points that the chart did not create, with a
\* path that is not in the index and without data-file-path
OtherTargets ==
  { [tag |-> "svg", class |-> "scatter-chart"],
    [tag |-> "circle", class |-> "scatter-point",
     dataFilePath |-> "elsewhere.md"],
    [tag |-> "circle", class |-> "scatter-point"] }

\* the circles of the charts in the container
CircleTargets ==
  UNION {{g.children[i] : i \in 1..Len(g.children)} :
           g \in UNION {{containerEl[j].children[k] :
                           k \in {m \in 1..Len(containerEl[j].children) :
                                    containerEl[j].children[m].class
                                      = "scatter-points"}} :
                          j \in {n \in 1..Len(containerEl) :
                                   containerEl[n].tag = "svg"}}}

EventTargets ==
  CircleTargets \cup OtherTargets

\* the buttons of a mouse: left, middle, right
Buttons ==
  {0, 1, 2}

\* a chart is in the container for the pointer to be on
ChartPresent ==
  \E j \in 1..Len(containerEl) : containerEl[j].tag = "svg"

\* a click arrives at the svg: handleClick when the listener is attached
Click ==
  /\ pc \in {"idle", "unloaded"}
  /\ ChartPresent
  /\ \E target \in EventTargets, button \in Buttons, modEvent \in BOOLEAN :
       lastEvent' =
         Some(IF Listening("click")
                THEN HandleClick(MouseEvent("click", target, button, modEvent),
                                 eventConfig[1])
                ELSE Handled(MouseEvent("click", target, button, modEvent),
                             << >>, << >>))
  /\ UNCHANGED << pc, viewConfig, groupedData, containerRect, containerEl,
                  cleanup, listeners, viewport, renderedPoints, calls,
                  eventConfig, activeTooltip, hostInputs >>
  /\ UNCHANGED << dataVars, scaleVars, renderVars, timerVars >>

\* the pointer enters an element of the svg: handleMouseEnter when the
\* listener is attached
MouseEnter ==
  /\ pc \in {"idle", "unloaded"}
  /\ ChartPresent
  /\ \E target \in EventTargets :
       IF /\ Listening("mouseenter")
          /\ IsPointElement(target)
          /\ FindPointFromElement(target, eventConfig[1].pointIndex) /= NULL
         THEN
           /\ containerEl' =
                EnterContainer(containerEl,
                  FindPointFromElement(target, eventConfig[1].pointIndex)[1],
                  target, eventConfig[1], activeTooltip)
           /\ activeTooltip' =
                Some(CreateTooltip(TooltipDataOf(
                  FindPointFromElement(target, eventConfig[1].pointIndex)[1],
                  eventConfig[1])))
           /\ lastEvent' =
                Some(CreateHoverHandler(
                  FindPointFromElement(target, eventConfig[1].pointIndex)[1],
                  MouseEvent("mouseenter", target, 0, FALSE)))
         ELSE
           /\ lastEvent' = Some(Handled(MouseEvent("mouseenter", target, 0,
                                                   FALSE), << >>, << >>))
           /\ UNCHANGED << containerEl, activeTooltip >>
  /\ UNCHANGED << pc, viewConfig, groupedData, containerRect, cleanup,
                  listeners, viewport, renderedPoints, calls, eventConfig,
                  hostInputs >>
  /\ UNCHANGED << dataVars, scaleVars, renderVars, timerVars >>

\* the pointer leaves an element of the svg: handleMouseLeave when the
\* listener is attached
MouseLeave ==
  /\ pc \in {"idle", "unloaded"}
  /\ ChartPresent
  /\ \E target \in EventTargets :
       /\ lastEvent' = Some(Handled(MouseEvent("mouseleave", target, 0, FALSE),
                                    << >>, << >>))
       /\ IF Listening("mouseleave") /\ IsPointElement(target)
            THEN /\ containerEl' = LeaveContainer(containerEl, target,
                                                  activeTooltip)
                 /\ activeTooltip' = NULL
            ELSE UNCHANGED << containerEl, activeTooltip >>
  /\ UNCHANGED << pc, viewConfig, groupedData, containerRect, cleanup,
                  listeners, viewport, renderedPoints, calls, eventConfig,
                  hostInputs >>
  /\ UNCHANGED << dataVars, scaleVars, renderVars, timerVars >>

\* a registered cleanup that disconnects the observer and leaves the timer
RegisteredCleanupTimersKept(id, ts) ==
  ts

\* the function registered in setupResizeObserver, as to the timers:
\* if (this.resizeTimeout !== null) window.clearTimeout(this.resizeTimeout)
RegisteredCleanupTimers(id, ts) ==
  ClearTimeout(id, ts)

\* the host unloads the view: onunload() (cleanup?.(), cleanup = null), then
\* the function registered in setupResizeObserver (observer.disconnect(),
\* clearTimeout of the pending timer)
Unload ==
  /\ pc = "idle"
  /\ pc' = "unloaded"
  /\ listeners' = AfterCleanup(cleanup, listeners)
  /\ cleanup' = NULL
  /\ containerEl' = IF cleanup = NULL THEN containerEl
                    ELSE RemoveElement(containerEl, activeTooltip)
  /\ activeTooltip' = IF cleanup = NULL THEN activeTooltip ELSE NULL
  /\ observing' = FALSE
  /\ timers' = RegisteredCleanupTimers(resizeTimeout, timers)
  /\ UNCHANGED << viewConfig, groupedData, containerRect, viewport,
                  renderedPoints, calls, eventConfig, lastEvent, hostInputs,
                  resizeTimeout, sinceResize >>
  /\ UNCHANGED << dataVars, scaleVars, renderVars >>

\* no call to a data function is under study
DataIdle ==
  /\ propertyId = NULL /\ numResult = NULL /\ catResult = NULL
  /\ entry = NULL /\ config = NULL /\ pointResult = NULL
  /\ entries = <<>> /\ extraction = NULL
  /\ points = <<>> /\ categories = <<>>
  /\ values = <<>> /\ paddingPercent = DefaultPaddingPercent
  /\ axisBounds = NULL /\ plotBounds = NULL

\* no call to a scale function is under study
ScaleIdle ==
  /\ scaleDomain = NULL /\ scaleRange = NULL /\ scaleInput = NULL
  /\ scaleOutput = NULL /\ inverseOutput = NULL

\* no call to generateTicks is under study
TicksIdle ==
  tickBounds = NULL /\ tickCount = NULL /\ ticks = <<>>

\* no call to a rendering function is under study
RenderIdle ==
  /\ palette = NULL /\ colorCategories = <<>> /\ colorMap = <<>>
  /\ colorPoint = NULL /\ pointColor = NULL
  /\ renderBounds = NULL /\ inner = NULL /\ rendered = <<>>
  /\ TicksIdle

\* no view is under study
ViewIdle ==
  /\ viewConfig = NULL /\ groupedData = <<>> /\ containerRect = NULL
  /\ containerEl = <<>> /\ cleanup = NULL /\ listeners = {}
  /\ viewport = DEFAULT_VIEWPORT /\ renderedPoints = <<>> /\ calls = <<>>
  /\ eventConfig = NULL /\ activeTooltip = NULL /\ lastEvent = NULL
  /\ hostInputs = NULL
  /\ observing = FALSE /\ resizeTimeout = NULL /\ timers = {}
  /\ sinceResize = NULL

\* the extractors on one property of one entry, and the batch call on that
\* entry alone
InitValue ==
  /\ pc = "start"
  /\ \E f \in FieldPalette :
       \E c \in {f, ThrowingField(ErrorType), IsEmptyThrowsField(ErrorBoom),
                 ToStringThrowsField(ErrorBoom)} :
         entry = Entry(1, f, Wrapped(<<"8">>), c)
  /\ propertyId \in {NULL, Some(ID_X), Some(ID_C)}
  /\ numResult = NULL /\ catResult = NULL
  /\ config = [xAxis |-> Some(ID_X), yAxis |-> Some(ID_Y), colorBy |-> Some(ID_C)]
  /\ pointResult = NULL
  /\ entries = <<entry>> /\ extraction = NULL
  /\ points = <<>> /\ categories = <<>>
  /\ values = <<>> /\ paddingPercent = DefaultPaddingPercent
  /\ axisBounds = NULL /\ plotBounds = NULL
  /\ ScaleIdle /\ RenderIdle
  /\ ViewIdle

NextValue ==
  \/ ExtractNumericCall
  \/ ExtractCategoryCall
  \/ ExtractDataCall

SpecValue ==
  InitValue /\ [][NextValue]_vars

\* entryToPoint on one entry under every configuration
InitPoint ==
  /\ pc = "start"
  /\ \E x \in XPalette, y \in YPalette, c \in CPalette : entry = Entry(1, x, y, c)
  /\ config \in Configs
  /\ propertyId = NULL /\ numResult = NULL /\ catResult = NULL
  /\ pointResult = NULL
  /\ entries = <<>> /\ extraction = NULL
  /\ points = <<>> /\ categories = <<>>
  /\ values = <<>> /\ paddingPercent = DefaultPaddingPercent
  /\ axisBounds = NULL /\ plotBounds = NULL
  /\ ScaleIdle /\ RenderIdle
  /\ ViewIdle

NextPoint ==
  EntryToPointCall

SpecPoint ==
  InitPoint /\ [][NextPoint]_vars

\* extractDataFromEntries on every entry list of at most MaxEntries entries
Init ==
  /\ pc = "start"
  /\ \E n \in 0..MaxEntries : entries \in EntryLists(n)
  /\ config \in BatchConfigs
  /\ propertyId = NULL /\ numResult = NULL /\ catResult = NULL
  /\ entry = NULL /\ pointResult = NULL
  /\ extraction = NULL
  /\ points = <<>> /\ categories = <<>>
  /\ values = <<>> /\ paddingPercent = DefaultPaddingPercent
  /\ axisBounds = NULL /\ plotBounds = NULL
  /\ ScaleIdle /\ RenderIdle
  /\ ViewIdle

Next ==
  ExtractDataCall

Spec ==
  Init /\ [][Next]_vars

\* extractCategories on every point list of at most MaxPoints points
InitCategories ==
  /\ pc = "start"
  /\ \E n \in 0..MaxPoints :
       \E cs \in [1..n -> CategoryPalette] :
         points = [i \in 1..n |-> PointOf(i, Whole(i), Whole(i), cs[i])]
  /\ categories = <<>>
  /\ propertyId = NULL /\ numResult = NULL /\ catResult = NULL
  /\ entry = NULL /\ config = NULL /\ pointResult = NULL
  /\ entries = <<>> /\ extraction = NULL
  /\ values = <<>> /\ paddingPercent = DefaultPaddingPercent
  /\ axisBounds = NULL /\ plotBounds = NULL
  /\ ScaleIdle /\ RenderIdle
  /\ ViewIdle

NextCategories ==
  ExtractCategoriesCall

SpecCategories ==
  InitCategories /\ [][NextCategories]_vars

\* the bounds calls on every list of at most MaxValues points; the value list
\* of calculateAxisBounds is the list of their x values
InitBounds ==
  /\ pc = "start"
  /\ \E n \in 0..MaxValues :
       \E xs \in [1..n -> ValuePalette], ys \in [1..n -> YValuePalette] :
         /\ points = [i \in 1..n |-> PointOf(i, xs[i], ys[i], NULL)]
         /\ values = xs
  /\ paddingPercent \in PaddingPalette
  /\ axisBounds = NULL /\ plotBounds = NULL
  /\ propertyId = NULL /\ numResult = NULL /\ catResult = NULL
  /\ entry = NULL /\ config = NULL /\ pointResult = NULL
  /\ entries = <<>> /\ extraction = NULL
  /\ categories = <<>>
  /\ ScaleIdle /\ RenderIdle
  /\ ViewIdle

NextBounds ==
  \/ CalculateAxisBoundsCall
  \/ CalculatePlotBoundsCall

SpecBounds ==
  InitBounds /\ [][NextBounds]_vars

\* the scale and its inverse on every domain, range and input of the palettes
InitScale ==
  /\ pc = "start"
  /\ scaleDomain \in DomainPalette
  /\ scaleRange \in RangePalette
  /\ scaleInput \in ScaleInputPalette
  /\ scaleOutput = NULL /\ inverseOutput = NULL
  /\ DataIdle /\ RenderIdle
  /\ ViewIdle

NextScale ==
  \/ CreateLinearScaleCall
  \/ CreateInverseLinearScaleCall

SpecScale ==
  InitScale /\ [][NextScale]_vars

\* the colour map of every category list of at most MaxCategories labels under
\* every palette, and the colour of a point looked up in it
InitColors ==
  /\ pc = "start"
  /\ \E n \in 0..MaxCategories : colorCategories \in [1..n -> LabelPalette]
  /\ palette \in ColorPalettes
  /\ colorPoint \in ColorPointPalette
  /\ colorMap = <<>> /\ pointColor = NULL
  /\ renderBounds = NULL /\ inner = NULL /\ rendered = <<>>
  /\ TicksIdle
  /\ DataIdle /\ ScaleIdle
  /\ ViewIdle

NextColors ==
  \/ CreateCategoryColorMapCall
  \/ GetPointColorCall

SpecColors ==
  InitColors /\ [][NextColors]_vars

\* transformPointsToScreen on every list of at most MaxRendered points of the
\* palette, under every pair of axis bounds, with the colour map of the
\* categories A and B
InitTransform ==
  /\ pc = "start"
  /\ \E n \in 0..MaxRendered : points \in [1..n -> RenderPointPalette]
  /\ \E bx \in AxisBoundsPalette, by \in AxisBoundsPalette :
       renderBounds = [x |-> bx, y |-> by]
  /\ inner \in InnerPalette
  /\ palette \in {DEFAULT_PALETTE}
  /\ colorCategories = << <<"A">>, <<"B">> >>
  /\ colorMap = CreateCategoryColorMap(colorCategories, palette)
  /\ colorPoint = NULL /\ pointColor = NULL /\ rendered = <<>>
  /\ TicksIdle
  /\ propertyId = NULL /\ numResult = NULL /\ catResult = NULL
  /\ entry = NULL /\ config = NULL /\ pointResult = NULL
  /\ entries = <<>> /\ extraction = NULL
  /\ categories = <<>>
  /\ values = <<>> /\ paddingPercent = DefaultPaddingPercent
  /\ axisBounds = NULL /\ plotBounds = NULL
  /\ ScaleIdle
  /\ ViewIdle

NextTransform ==
  TransformPointsToScreenCall

SpecTransform ==
  InitTransform /\ [][NextTransform]_vars

\* generateTicks on every bounds of the palette and every count up to
\* MaxTicks, and with the count left out
InitTicks ==
  /\ pc = "start"
  /\ tickBounds \in TickBoundsPalette
  /\ tickCount \in {NULL} \cup {Some(n) : n \in 0..MaxTicks}
  /\ ticks = <<>>
  /\ palette = NULL /\ colorCategories = <<>> /\ colorMap = <<>>
  /\ colorPoint = NULL /\ pointColor = NULL
  /\ renderBounds = NULL /\ inner = NULL /\ rendered = <<>>
  /\ DataIdle /\ ScaleIdle
  /\ ViewIdle

NextTicks ==
  GenerateTicksCall

SpecTicks ==
  InitTicks /\ [][NextTicks]_vars

\* the view after its construction, the host having no data and no
\* configuration yet; the host then changes them and calls onDataUpdated
InitView ==
  /\ pc = "idle"
  /\ viewConfig = [xAxis |-> ConfigUndefined, yAxis |-> ConfigUndefined,
                   colorBy |-> ConfigUndefined]
  /\ groupedData = <<>>
  /\ containerRect = [width |-> Whole(0), height |-> Whole(0)]
  /\ containerEl = <<>> /\ cleanup = NULL /\ listeners = {}
  /\ viewport = DEFAULT_VIEWPORT /\ renderedPoints = <<>> /\ calls = <<>>
  /\ eventConfig = NULL /\ activeTooltip = NULL /\ lastEvent = NULL
  /\ hostInputs = "palettes"
  /\ observing = TRUE /\ resizeTimeout = NULL /\ timers = {}
  /\ sinceResize = NULL
  /\ DataIdle /\ ScaleIdle /\ RenderIdle

NextView ==
  OnDataUpdated

SpecView ==
  InitView /\ [][NextView]_vars

\* sizes of the container: not laid out, 900 x 100, just above 100 both ways,
\* and large
PlotRectPalette ==
  { [width |-> Whole(0),    height |-> Whole(0)],
    [width |-> Whole(900),  height |-> Whole(100)],
    [width |-> Whole(101),  height |-> Whole(101)],
    [width |-> Whole(2000), height |-> Whole(1200)] }

\* the values of ValuePalette and +-31 * 2^1019, which with 5% of their
\* magnitude added are beyond every finite double
PlotValuePalette ==
  ValuePalette \cup {Scaled(31, 1, 1019), Scaled(-31, 1, 1019)}

\* the bounds of a list of points under the default padding, and the points
\* rendered in them for a size of the container
InitPlot ==
  /\ pc = "start"
  /\ \E n \in 1..MaxPlotted :
       \E xs \in [1..n -> PlotValuePalette], ys \in [1..n -> YValuePalette] :
         /\ points = [i \in 1..n |-> PointOf(i, xs[i], ys[i], NULL)]
         /\ values = xs
  /\ paddingPercent = DefaultPaddingPercent
  /\ axisBounds = NULL /\ plotBounds = NULL
  /\ propertyId = NULL /\ numResult = NULL /\ catResult = NULL
  /\ entry = NULL /\ config = NULL /\ pointResult = NULL
  /\ entries = <<>> /\ extraction = NULL
  /\ categories = <<>>
  /\ ScaleIdle /\ RenderIdle
  /\ viewConfig = NULL /\ groupedData = <<>>
  /\ containerRect \in PlotRectPalette
  /\ containerEl = <<>> /\ cleanup = NULL /\ listeners = {}
  /\ viewport = DEFAULT_VIEWPORT /\ renderedPoints = <<>> /\ calls = <<>>
  /\ eventConfig = NULL /\ activeTooltip = NULL /\ lastEvent = NULL
  /\ hostInputs = NULL
  /\ observing = FALSE /\ resizeTimeout = NULL /\ timers = {}
  /\ sinceResize = NULL

NextPlot ==
  \/ CalculatePlotBoundsCall
  \/ RenderPointsCall

SpecPlot ==
  InitPlot /\ [][NextPlot]_vars

\* the view after its construction in a host whose container is resized
InitResize ==
  /\ pc = "idle"
  /\ viewConfig = [xAxis |-> ConfigUndefined, yAxis |-> ConfigUndefined,
                   colorBy |-> ConfigUndefined]
  /\ groupedData = <<>>
  /\ containerRect = [width |-> Whole(0), height |-> Whole(0)]
  /\ containerEl = <<>> /\ cleanup = NULL /\ listeners = {}
  /\ viewport = DEFAULT_VIEWPORT /\ renderedPoints = <<>> /\ calls = <<>>
  /\ eventConfig = NULL /\ activeTooltip = NULL /\ lastEvent = NULL
  /\ hostInputs = "resize"
  /\ observing = TRUE /\ resizeTimeout = NULL /\ timers = {}
  /\ sinceResize = NULL
  /\ DataIdle /\ ScaleIdle /\ RenderIdle

NextResize ==
  \/ OnDataUpdated
  \/ ResizeObserved
  \/ Advance
  \/ ResizeTimerFires
  \/ Unload

SpecResize ==
  InitResize /\ [][NextResize]_vars

\* the view after its construction in a host whose user moves the pointer
\* over the chart and clicks
InitPointer ==
  /\ pc = "idle"
  /\ viewConfig = [xAxis |-> ConfigUndefined, yAxis |-> ConfigUndefined,
                   colorBy |-> ConfigUndefined]
  /\ groupedData = << Group(<< BatchEntry(1, 1), BatchEntry(2, 8) >>) >>
  /\ containerRect = [width |-> Whole(0), height |-> Whole(0)]
  /\ containerEl = <<>> /\ cleanup = NULL /\ listeners = {}
  /\ viewport = DEFAULT_VIEWPORT /\ renderedPoints = <<>> /\ calls = <<>>
  /\ eventConfig = NULL /\ activeTooltip = NULL /\ lastEvent = NULL
  /\ hostInputs = "pointer"
  /\ observing = TRUE /\ resizeTimeout = NULL /\ timers = {}
  /\ sinceResize = NULL
  /\ DataIdle /\ ScaleIdle /\ RenderIdle

NextPointer ==
  \/ OnDataUpdated
  \/ MouseEnter
  \/ MouseLeave
  \/ Click
  \/ Unload

SpecPointer ==
  InitPointer /\ [][NextPointer]_vars

---------------------------------------------------------------------------
(* What the claims say about a property, stated from the property itself *)

\* reading property f throws: the lookup, isEmpty() or toString()
FieldThrows(f) ==
  \/ f.t = "throws"
  \/ f.t = "object" /\ f.hasIsEmpty /\ f.isEmpty = "throws"
  \/ f.t = "object" /\ ~(f.hasIsEmpty /\ f.isEmpty = "true") /\ f.toStringThrows

\* property f is empty
FieldEmpty(f) ==
  \/ f.t \in {"null", "undefined"}
  \/ f.t = "object" /\ f.hasIsEmpty /\ f.isEmpty = "true"
  \/ f.t = "number" /\ (f.num = Whole(0) \/ f.num = NaN)
  \/ f.t = "boolean" /\ ~f.bool
  \/ f.t = "string" /\ f.str = <<>>

\* the string form of property f
FieldString(f) ==
  CASE f.t = "number"  -> NumberToString(f.num)
    [] f.t = "boolean" -> IF f.bool THEN <<"t","r","u","e">> ELSE <<"f","a","l","s","e">>
    [] OTHER           -> f.str

\* result is a skip of entry e with the reason
IsSkipWith(result, e, reason) ==
  /\ IsSkippedEntry(result)
  /\ ~IsScatterPoint(result)
  /\ result.file = e.file
  /\ result.reason = reason

---------------------------------------------------------------------------
(* C1 *)

\* C1 as stated: entryToPoint checks X configured, X extraction, Y configured,
\* Y extraction, in this order, and the first failing check alone gives the
\* skip reason; with xAxis set, yAxis unset and a failing X extraction the
\* reason is that of the X extraction.
C1_ExtractionBeforeYConfigured ==
  pc = "point" =>
    /\ pointResult.type = "normal"
    /\ IF config.xAxis = NULL
         THEN IsSkipWith(pointResult.value, entry, STR_XNotConfigured)
       ELSE IF ~ExtractNumericValue(entry, ID_X).value.success
         THEN IsSkipWith(pointResult.value, entry,
                         ExtractNumericValue(entry, ID_X).value.reason)
       ELSE IF config.yAxis = NULL
         THEN IsSkipWith(pointResult.value, entry, STR_YNotConfigured)
       ELSE IF ~ExtractNumericValue(entry, ID_Y).value.success
         THEN IsSkipWith(pointResult.value, entry,
                         ExtractNumericValue(entry, ID_Y).value.reason)
       ELSE IsScatterPoint(pointResult.value)

\* C1 amended: entryToPoint checks X configured, Y configured, X extraction,
\* Y extraction, in this order, and the first failing check alone gives the
\* skip reason; with xAxis set, yAxis unset and a failing X extraction the
\* reason is "Y axis property not configured".
C1_ConfigBeforeExtraction ==
  pc = "point" =>
    /\ pointResult.type = "normal"
    /\ IF config.xAxis = NULL
         THEN IsSkipWith(pointResult.value, entry, STR_XNotConfigured)
       ELSE IF config.yAxis = NULL
         THEN IsSkipWith(pointResult.value, entry, STR_YNotConfigured)
       ELSE IF ~ExtractNumericValue(entry, ID_X).value.success
         THEN IsSkipWith(pointResult.value, entry,
                         ExtractNumericValue(entry, ID_X).value.reason)
       ELSE IF ~ExtractNumericValue(entry, ID_Y).value.success
         THEN IsSkipWith(pointResult.value, entry,
                         ExtractNumericValue(entry, ID_Y).value.reason)
       ELSE IsScatterPoint(pointResult.value)

\* C1 witness: xAxis set, yAxis unset, the X property is not numeric, and the
\* entry is skipped for the unconfigured Y axis
C1_Witness ==
  /\ pc = "point"
  /\ config.xAxis = Some(ID_X)
  /\ config.yAxis = NULL
  /\ entry.fields[ID_X] = Wrapped(<<"b","a","d">>)
  /\ pointResult.value.reason = STR_YNotConfigured

---------------------------------------------------------------------------
(* C2 *)

\* the files of a list of points or skipped entries, in order
FilesOf(list) ==
  [i \in 1..Len(list) |-> list[i].file]

\* C2: extractDataFromEntries partitions the entries: every entry is in
\* exactly one of points and skipped, |points| + |skipped| = |entries|, each
\* partition keeps the input order, and an entry that fails does not stop the
\* entries after it from being processed.
C2_Partition ==
  pc = "extracted" =>
    /\ extraction.type = "normal"
    /\ LET ps      == extraction.value.points
           sk      == extraction.value.skipped
           inPs(e) == \E j \in 1..Len(ps) : ps[j].file = e.file
           inSk(e) == \E j \in 1..Len(sk) : sk[j].file = e.file
       IN  /\ Len(ps) + Len(sk) = Len(entries)
           /\ \A i \in 1..Len(entries) : inPs(entries[i]) /= inSk(entries[i])
           /\ FilesOf(ps) = FilesOf(SelectSeq(entries, inPs))
           /\ FilesOf(sk) = FilesOf(SelectSeq(entries, inSk))
           /\ \A j \in 1..Len(ps) : IsScatterPoint(ps[j]) /\ ps[j].entry \in
                                      {entries[i] : i \in 1..Len(entries)}
           /\ \A j \in 1..Len(sk) : IsSkippedEntry(sk[j])
           /\ \A i \in 1..Len(entries) :
                inPs(entries[i]) = IsScatterPoint(EntryToPoint(entries[i], config).value)

\* C2 witness: three entries, the first is skipped and the two after it are
\* points, in input order
C2_Witness ==
  /\ pc = "extracted"
  /\ Len(entries) = 3
  /\ FilesOf(extraction.value.skipped) = <<entries[1].file>>
  /\ FilesOf(extraction.value.points) = <<entries[2].file, entries[3].file>>

---------------------------------------------------------------------------
(* C3 *)

\* C3: extractNumericValue puts a property that can be read into exactly one
\* class: empty -> Failure 'Property "<id>" is empty'; not empty and Number of
\* its string form NaN -> Failure '... value "<raw>" is not numeric'; not empty
\* and +/-Infinity -> Failure '... value is not finite'; otherwise
\* Success(number).  A Success value is finite, and every Failure reason
\* contains the property id.
C3_NumericClassification ==
  pc = "numeric" =>
    LET id == propertyId[1]
        f  == entry.fields[id]
        r  == numResult.value
    IN  /\ numResult.type = "normal"
        /\ ~FieldThrows(f) =>
             IF FieldEmpty(f)
               THEN r = Failure(STR_Property \o id \o STR_IsEmpty)
             ELSE IF IsNaN(Number(FieldString(f)))
               THEN r = Failure(STR_Property \o id \o STR_Value \o FieldString(f)
                                \o STR_IsNotNumeric)
             ELSE IF ~IsFinite(Number(FieldString(f)))
               THEN r = Failure(STR_Property \o id \o STR_ValueIsNotFinite)
             ELSE r = Success(Number(FieldString(f)))
        /\ r.success => IsFinite(r.value)
        /\ ~r.success => Contains(r.reason, id)
        /\ f = Wrapped(<<"2">>) => r = Success(Whole(2))
        /\ f = Wrapped(<<"b","a","d">>) => r.reason = STR_Property \o id \o STR_Value
                                                 \o <<"b","a","d">> \o STR_IsNotNumeric
        /\ f = Wrapped(<<"1","e","9","9","9">>) => ~r.success
        /\ f = NullField => r.reason = STR_Property \o id \o STR_IsEmpty

\* C3 witness: a property that is not empty and whose string form converts
\* to Infinity is refused as not finite
C3_Witness ==
  /\ pc = "numeric"
  /\ entry.fields[propertyId[1]] = Wrapped(<<"1","e","9","9","9">>)
  /\ numResult.value = Failure(STR_Property \o propertyId[1] \o STR_ValueIsNotFinite)

---------------------------------------------------------------------------
(* C4 *)

\* C4: the extractors never raise.  When the lookup, isEmpty() or toString()
\* throws e, extractNumericValue returns Failure 'Failed to read property
\* "<id>": <String(e)>' and extractCategoryValue returns a failure without a
\* reason; no exception leaves extractDataFromEntries.
C4_ExtractorsNeverRaise ==
  /\ pc = "numeric" =>
       LET id == propertyId[1]
           f  == entry.fields[id]
       IN  /\ numResult.type = "normal"
           /\ FieldThrows(f) =>
                numResult.value = Failure(STR_FailedToRead \o id \o STR_QuoteColon
                                          \o String(f.error))
           /\ f = ThrowingField(ErrorBoom) =>
                numResult.value.reason =
                  STR_FailedToRead \o id \o STR_QuoteColon
                    \o <<"E","r","r","o","r",":"," ","b","o","o","m">>
  /\ pc = "category" =>
       /\ catResult.type = "normal"
       /\ (propertyId /= NULL /\ FieldThrows(entry.fields[propertyId[1]])) =>
            /\ ~catResult.value.success
            /\ DOMAIN catResult.value = {"success"}
  /\ pc = "extracted" => extraction.type = "normal"

\* C4 witness: toString() of the X property throws and the batch call
\* returns with the entry skipped
C4_Witness ==
  /\ pc = "extracted"
  /\ entry.fields[ID_X] = ToStringThrowsField(ErrorType)
  /\ Len(extraction.value.skipped) = 1
  /\ extraction.value.skipped[1].reason =
       STR_FailedToRead \o ID_X \o STR_QuoteColon \o ErrorType.name

---------------------------------------------------------------------------
(* C5 *)

\* C5: a failed category extraction (colorBy unset, property empty, or a
\* throwing read) never causes a skip: when both axes are configured and the
\* X and Y extractions succeed the entry becomes a point, with category null
\* when the category extraction failed and the string form of the property
\* otherwise.
C5_CategoryNeverSkips ==
  ( /\ pc = "point"
    /\ config.xAxis /= NULL
    /\ config.yAxis /= NULL
    /\ ExtractNumericValue(entry, ID_X).value.success
    /\ ExtractNumericValue(entry, ID_Y).value.success ) =>
    /\ pointResult.type = "normal"
    /\ IsScatterPoint(pointResult.value)
    /\ ~IsSkippedEntry(pointResult.value)
    /\ pointResult.value.x = ExtractNumericValue(entry, ID_X).value.value
    /\ pointResult.value.y = ExtractNumericValue(entry, ID_Y).value.value
    /\ pointResult.value.file = entry.file
    /\ LET c == entry.fields[ID_C]
       IN  pointResult.value.category =
             IF config.colorBy = NULL \/ FieldThrows(c) \/ FieldEmpty(c)
               THEN NULL
               ELSE Some(FieldString(c))

\* C5 witness: colorBy is set, the lookup of the colour property throws, and
\* the entry is a point without category
C5_Witness ==
  /\ pc = "point"
  /\ config.colorBy = Some(ID_C)
  /\ entry.fields[ID_C] = ThrowingField(ErrorBoom)
  /\ IsScatterPoint(pointResult.value)
  /\ pointResult.value.category = NULL

---------------------------------------------------------------------------
(* C6 *)

\* both axes are configured and the Y property of every entry is missing
AllMissingY ==
  /\ config.xAxis /= NULL
  /\ config.yAxis /= NULL
  /\ \A i \in 1..Len(entries) : FieldEmpty(entries[i].fields[ID_Y])

\* C6 as stated: when every record is missing the Y field, there are 0 points,
\* as many skipped as records, and every skip reason references the Y field
\* identifier.
C6_EveryReasonNamesY ==
  (pc = "extracted" /\ AllMissingY) =>
    /\ extraction.type = "normal"
    /\ Len(extraction.value.points) = 0
    /\ Len(extraction.value.skipped) = Len(entries)
    /\ \A j \in 1..Len(extraction.value.skipped) :
         Contains(extraction.value.skipped[j].reason, ID_Y)

\* C6 amended: when both axes are configured and every record is missing the
\* Y field, there are 0 points and as many skipped as records; the skip reason
\* of a record references the Y field identifier when its X extraction
\* succeeds, and is the reason of the X extraction, which references the X
\* field identifier, when that fails too.
C6_ReasonNamesFirstFailingField ==
  (pc = "extracted" /\ AllMissingY) =>
    /\ extraction.type = "normal"
    /\ Len(extraction.value.points) = 0
    /\ Len(extraction.value.skipped) = Len(entries)
    /\ \A i \in 1..Len(entries) :
         LET sk == extraction.value.skipped[i]
             xr == ExtractNumericValue(entries[i], ID_X).value
         IN  /\ sk.file = entries[i].file
             /\ IF xr.success
                  THEN Contains(sk.reason, ID_Y) /\ ~Contains(sk.reason, ID_X)
                  ELSE sk.reason = xr.reason /\ Contains(sk.reason, ID_X)
                       /\ ~Contains(sk.reason, ID_Y)

\* C6 witness: two records without Y; the X of the first extracts and its
\* reason names Y, the X of the second is missing too and its reason names X
C6_Witness ==
  /\ pc = "extracted"
  /\ AllMissingY
  /\ Len(entries) = 2
  /\ ExtractNumericValue(entries[1], ID_X).value.success
  /\ entries[2].fields[ID_X] = NullField
  /\ extraction.value.skipped[1].reason = STR_Property \o ID_Y \o STR_IsEmpty
  /\ extraction.value.skipped[2].reason = STR_Property \o ID_X \o STR_IsEmpty

---------------------------------------------------------------------------
(* C7 *)

\* the categories of a point list, in order
CategoriesOf(ps) ==
  [i \in 1..Len(ps) |-> ps[i].category]

\* C7: extractCategories returns exactly the distinct non-null categories of
\* the points, each once, ordered by first occurrence (no sorting); it is
\* empty when there are no points or all categories are null.  [C, A, B, A,
\* null, C] gives [C, A, B].
C7_DistinctInFirstSeenOrder ==
  pc = "categories" =>
    LET labelled == {i \in 1..Len(points) : points[i].category /= NULL}
        first(c) == CHOOSE i \in labelled :
                      /\ points[i].category = Some(c)
                      /\ \A j \in labelled : points[j].category = Some(c) => i <= j
    IN  /\ {categories[k] : k \in 1..Len(categories)}
             = {points[i].category[1] : i \in labelled}
        /\ \A k, l \in 1..Len(categories) :
             k < l => /\ categories[k] /= categories[l]
                      /\ first(categories[k]) < first(categories[l])
        /\ labelled = {} => categories = <<>>
        /\ CategoriesOf(points) = <<Some(<<"C">>), Some(<<"A">>), Some(<<"B">>),
                                    Some(<<"A">>), NULL, Some(<<"C">>)>>
             => categories = << <<"C">>, <<"A">>, <<"B">> >>

\* C7 witness: the categories [C, A, B, A, null, C] have been reduced to
\* [C, A, B]
C7_Witness ==
  /\ pc = "categories"
  /\ CategoriesOf(points) = <<Some(<<"C">>), Some(<<"A">>), Some(<<"B">>),
                              Some(<<"A">>), NULL, Some(<<"C">>)>>
  /\ categories = << <<"C">>, <<"A">>, <<"B">> >>

---------------------------------------------------------------------------
(* C8 *)

---------------------------------------------------------------------------
(* C9 *)

\* C9 as stated: for a non-empty list of finite values and a padding
\* fraction that is not negative, calculateAxisBounds returns min <= max,
\* strictly min < max, and max - min is at least the padding applied: the
\* axis is never zero-width.
C9_NeverZeroWidth ==
  (pc = "axis" /\ values /= <<>> /\ ~Less(paddingPercent, Whole(0))) =>
    LET all     == {values[i] : i \in 1..Len(values)}
        lo      == CHOOSE m \in all : \A v \in all : LessEq(m, v)
        bounds  == axisBounds[1]
        applied == Sub(lo, bounds.min)
    IN  /\ axisBounds /= NULL
        /\ LessEq(bounds.min, bounds.max)
        /\ Less(bounds.min, bounds.max)
        /\ LessEq(applied, Sub(bounds.max, bounds.min))

\* C9, amended: for a non-empty list of finite values and a padding fraction f
\* that is not negative, calculateAxisBounds returns min <= max, strictly
\* min < max and max - min at least the padding p, with two exceptions: when
\* all values are equal and p is lost to rounding in both min - p and max + p
\* the axis is zero-width, and when the range overflows to Infinity and f is 0
\* both bounds are NaN.  Neither exception happens under the default fraction.
C9_NonZeroWidthUnlessPaddingLost ==
  (pc = "axis" /\ values /= <<>> /\ ~Less(paddingPercent, Whole(0))) =>
    LET all       == {values[i] : i \in 1..Len(values)}
        lo        == CHOOSE m \in all : \A v \in all : LessEq(m, v)
        hi        == CHOOSE m \in all : \A v \in all : LessEq(v, m)
        range     == Sub(hi, lo)
        f         == paddingPercent
        product   == Mul(MathAbs(lo), f)
        p         == IF range /= Whole(0) THEN Mul(range, f)
                     ELSE IF product /= Whole(0) THEN product
                     ELSE Whole(1)
        lost      == range = Whole(0) /\ Sub(lo, p) = lo /\ Add(hi, p) = hi
        undefined == range = PosInfinity /\ f = Whole(0)
        bounds    == axisBounds[1]
    IN  /\ axisBounds /= NULL
        /\ undefined => IsNaN(bounds.min) /\ IsNaN(bounds.max)
        /\ lost => bounds.min = lo /\ bounds.max = lo
        /\ (~undefined /\ ~lost) =>
             /\ LessEq(bounds.min, bounds.max)
             /\ Less(bounds.min, bounds.max)
             /\ LessEq(p, Sub(bounds.max, bounds.min))
        /\ f = Fin(1, 20) => (~undefined /\ ~lost)

\* C9 witness: one value and the fraction 0, so that range and product are
\* both zero, the padding is 1 and the axis is [99, 101]
C9_Witness ==
  /\ pc = "axis"
  /\ values = <<Whole(100)>>
  /\ paddingPercent = Whole(0)
  /\ axisBounds = Some([min |-> Whole(99), max |-> Whole(101)])

---------------------------------------------------------------------------
(* C10 *)

\* C10: calculateAxisBounds returns null exactly when the value list is
\* empty, and calculatePlotBounds returns null exactly when the point list is
\* empty; otherwise calculatePlotBounds returns the X bounds computed from the
\* x values alone and the Y bounds from the y values alone, with the same
\* padding fraction.
C10_NullExactlyWhenEmpty ==
  /\ pc = "axis" => ((axisBounds = NULL) <=> (values = <<>>))
  /\ pc = "plot" =>
       LET xs == [i \in 1..Len(points) |-> points[i].x]
           ys == [i \in 1..Len(points) |-> points[i].y]
       IN  /\ (plotBounds = NULL) <=> (points = <<>>)
           /\ points /= <<>> =>
                /\ Some(plotBounds[1].x) = CalculateAxisBounds(xs, paddingPercent)
                /\ Some(plotBounds[1].y) = CalculateAxisBounds(ys, paddingPercent)
           /\ (xs = <<Whole(0), Whole(100)>> /\ ys = <<Whole(0), Whole(200)>>
               /\ paddingPercent = Fin(1, 20)) =>
                plotBounds = Some([x |-> [min |-> Whole(-5),  max |-> Whole(105)],
                                   y |-> [min |-> Whole(-10), max |-> Whole(210)]])

\* C10 witness: the points (0, 0) and (100, 200) under the fraction 0.1 give
\* X bounds [-10, 110] and Y bounds [-20, 220]
C10_Witness ==
  /\ pc = "plot"
  /\ Len(points) = 2
  /\ points[1].x = Whole(0) /\ points[1].y = Whole(0)
  /\ points[2].x = Whole(100) /\ points[2].y = Whole(200)
  /\ paddingPercent = Fin(1, 10)
  /\ plotBounds = Some([x |-> [min |-> Whole(-10), max |-> Whole(110)],
                        y |-> [min |-> Whole(-20), max |-> Whole(220)]])

---------------------------------------------------------------------------
(* C11 *)

\* a + b is computed without rounding: both are finite, neither is lost next
\* to the other, and the sum does not overflow
SumIsExact(a, b) ==
  /\ IsFinite(a) /\ IsFinite(b) /\ IsFinite(Add(a, b))
  /\ \/ a.n = 0
     \/ b.n = 0
     \/ ~MagnitudeLess(a, b, 54) /\ ~MagnitudeLess(b, a, 54)

\* the call createLinearScale(d0, d1, r0, r1)(v) has returned
ScaleReturned(d0, d1, r0, r1, v) ==
  /\ pc = "scaled"
  /\ scaleDomain = Interval(Whole(d0), Whole(d1))
  /\ scaleRange = Interval(Whole(r0), Whole(r1))
  /\ scaleInput = Whole(v)

\* C11 as stated: for d0 /= d1 the scale is r0 + ((v - d0)/(d1 - d0)) * (r1 - r0)
\* for every v, so that d0 maps to r0 and d1 maps to r1.
C11_EndsMapToEnds ==
  (pc = "scaled" /\ scaleDomain.min /= scaleDomain.max) =>
    /\ scaleOutput =
         Add(scaleRange.min,
             Mul(Div(Sub(scaleInput, scaleDomain.min),
                     Sub(scaleDomain.max, scaleDomain.min)),
                 Sub(scaleRange.max, scaleRange.min)))
    /\ scaleInput = scaleDomain.min => scaleOutput = scaleRange.min
    /\ scaleInput = scaleDomain.max => scaleOutput = scaleRange.max

\* C11: for d0 /= d1 the scale is the value of
\* r0 + ((v - d0)/(d1 - d0)) * (r1 - r0) in the arithmetic of numbers, for every
\* v and without clamping: inputs outside the domain give outputs outside the
\* range, also for an inverted range.  d0 maps to r0 when r1 - r0 is finite;
\* when d1 - d0 is finite, d1 maps to r0 + (r1 - r0), which is r1 when that
\* difference and sum are exact, as they are when r0 or r1 is 0.
C11_LinearWithoutClamping ==
  /\ (pc = "scaled" /\ scaleDomain.min /= scaleDomain.max) =>
       LET d0 == scaleDomain.min
           d1 == scaleDomain.max
           r0 == scaleRange.min
           r1 == scaleRange.max
           rangeSpan == Sub(r1, r0)
       IN  /\ scaleOutput =
                Add(r0, Mul(Div(Sub(scaleInput, d0), Sub(d1, d0)), rangeSpan))
           /\ (scaleInput = d0 /\ IsFinite(rangeSpan)) => scaleOutput = r0
           /\ (scaleInput = d1 /\ IsFinite(Sub(d1, d0)))
                 => scaleOutput = Add(r0, rangeSpan)
           /\ (scaleInput = d1 /\ IsFinite(Sub(d1, d0))
                 /\ SumIsExact(r1, Neg(r0))
                 /\ SumIsExact(r0, rangeSpan)) => scaleOutput = r1
           /\ (scaleInput = d1 /\ IsFinite(Sub(d1, d0))
                 /\ IsFinite(r0) /\ IsFinite(r1)
                 /\ (r0 = Whole(0) \/ r1 = Whole(0))) => scaleOutput = r1
  /\ ScaleReturned(0, 100, 0, 500, -20) => scaleOutput = Whole(-100)
  /\ ScaleReturned(0, 100, 0, 500, 120) => scaleOutput = Whole(600)
  /\ ScaleReturned(0, 100, 500, 0, 120) => scaleOutput = Whole(-100)
  /\ ScaleReturned(0, 100, 500, 0, 25) => scaleOutput = Whole(375)
  /\ ScaleReturned(-50, 50, 100, 600, 0) => scaleOutput = Whole(350)

\* an input above the domain has been mapped above the range
C11_Witness ==
  ScaleReturned(0, 100, 0, 500, 120) /\ scaleOutput = Whole(600)

---------------------------------------------------------------------------
(* C12 *)

\* the call createInverseLinearScale(d0, d1, r0, r1)(v) has returned
InverseReturned(d0, d1, r0, r1, v) ==
  /\ pc = "inverted"
  /\ scaleDomain = Interval(Whole(d0), Whole(d1))
  /\ scaleRange = Interval(Whole(r0), Whole(r1))
  /\ scaleInput = Whole(v)

\* C12: a span of zero is never divided by.  A scale on a domain [a, a] gives
\* (r0 + r1) / 2 on every input, and an inverse scale on a range [r, r] gives
\* (d0 + d1) / 2 on every input; with finite ends the result is a number, and
\* finite unless the sum of the two ends overflows.
C12_DegenerateSpanGivesMidpoint ==
  /\ (pc = "scaled" /\ scaleDomain.min = scaleDomain.max) =>
       /\ scaleOutput = Div(Add(scaleRange.min, scaleRange.max), Whole(2))
       /\ ~IsNaN(scaleOutput)
       /\ IsFinite(Add(scaleRange.min, scaleRange.max)) => IsFinite(scaleOutput)
  /\ (pc \in {"inverted", "roundtrip"} /\ scaleRange.min = scaleRange.max) =>
       /\ inverseOutput = Div(Add(scaleDomain.min, scaleDomain.max), Whole(2))
       /\ IsFinite(inverseOutput)
  /\ \A v \in {-50, -20, 0, 25, 50, 100, 120, 250, 500} :
       /\ ScaleReturned(50, 50, 0, 500, v) => scaleOutput = Whole(250)
       /\ ScaleReturned(50, 50, 500, 0, v) => scaleOutput = Whole(250)
       /\ ScaleReturned(50, 50, 100, 600, v) => scaleOutput = Whole(350)
       /\ InverseReturned(0, 100, 50, 50, v) => inverseOutput = Whole(50)
       /\ InverseReturned(-50, 50, 50, 50, v) => inverseOutput = Whole(0)

\* a scale on the domain [50, 50] has returned the middle of [0, 500] for an
\* input away from 50
C12_Witness ==
  ScaleReturned(50, 50, 0, 500, 120) /\ scaleOutput = Whole(250)

---------------------------------------------------------------------------
(* C13 *)

\* v lies between the ends of the domain, whichever end is the larger
InDomain(v, domain) ==
  \/ LessEq(domain.min, v) /\ LessEq(v, domain.max)
  \/ LessEq(domain.max, v) /\ LessEq(v, domain.min)

\* every operation of scale(v) followed by inverse(scale(v)) is exact: no sum
\* or difference loses an addend, and nothing overflows
RoundTripIsExact(d0, d1, r0, r1, v) ==
  LET domainSpan == Sub(d1, d0)
      rangeSpan == Sub(r1, r0)
      offset == Mul(Div(Sub(v, d0), domainSpan), rangeSpan)
      screen == Add(r0, offset)
      back == Mul(Div(Sub(screen, r0), rangeSpan), domainSpan)
  IN  /\ IsFinite(domainSpan) /\ IsFinite(rangeSpan)
      /\ SumIsExact(v, Neg(d0)) /\ IsFinite(offset)
      /\ SumIsExact(r0, offset)
      /\ SumIsExact(screen, Neg(r0)) /\ IsFinite(back)
      /\ SumIsExact(d0, back)

---------------------------------------------------------------------------
(* C14 *)

\* no label occurs twice in the list
Distinct(list) ==
  \A i, j \in 1..Len(list) : list[i] = list[j] => i = j

\* C14: for a list of distinct categories of any length m and a palette of
\* k >= 1 colours, the map made by createCategoryColorMap has exactly one
\* entry per category, in list order, and the category at index i (from 0)
\* has the colour palette.colors[i mod k]; the map of the empty list is empty.
C14_ColorsCycleByIndex ==
  (pc \in {"colormap", "color"} /\ Distinct(colorCategories)) =>
    /\ Len(colorMap) = Len(colorCategories)
    /\ colorCategories = <<>> => colorMap = <<>>
    /\ \A i \in 1..Len(colorCategories) :
         /\ colorMap[i].key = colorCategories[i]
         /\ Len(palette.colors) >= 1 =>
              /\ colorMap[i].value =
                   Some(palette.colors[((i - 1) % Len(palette.colors)) + 1])
              /\ MapGet(colorMap, colorCategories[i]) = colorMap[i].value

\* four distinct categories under a palette of three colours: the fourth has
\* the first colour again
C14_Witness ==
  /\ pc = "colormap"
  /\ colorCategories = << <<"A">>, <<"B">>, <<"C">>, <<"D">> >>
  /\ Len(palette.colors) = 3
  /\ MapGet(colorMap, <<"D">>) = Some(palette.colors[1])
  /\ MapGet(colorMap, <<"C">>) = Some(palette.colors[3])

---------------------------------------------------------------------------
(* C15 *)

\* C15: getPointColor gives the fallback colour to a point without category
\* and to a point whose category is not a key of the map (the empty map
\* included), and the colour the map holds for the category otherwise.
C15_FallbackUnlessMapped ==
  pc = "color" =>
    /\ colorPoint.category = NULL => pointColor = Some(palette.fallback)
    /\ (colorPoint.category /= NULL
          /\ ~MapHas(colorMap, colorPoint.category[1]))
         => pointColor = Some(palette.fallback)
    /\ (colorPoint.category /= NULL /\ colorMap = <<>>)
         => pointColor = Some(palette.fallback)
    /\ \A i \in 1..Len(colorMap) :
         (colorPoint.category = Some(colorMap[i].key)
            /\ colorMap[i].value /= NULL)
           => pointColor = colorMap[i].value

\* a point of category D has the colour the map holds for D, which is not the
\* fallback colour
C15_Witness ==
  /\ pc = "color"
  /\ colorPoint.category = Some(<<"D">>)
  /\ MapHas(colorMap, <<"D">>)
  /\ pointColor = MapGet(colorMap, <<"D">>)
  /\ pointColor /= Some(palette.fallback)

---------------------------------------------------------------------------
(* C16 *)

\* transformPointsToScreen has returned for bounds [x0, x1] by [y0, y1] and
\* inner dimensions w by h
TransformReturned(x0, x1, y0, y1, w, h) ==
  /\ pc = "rendered"
  /\ renderBounds = [x |-> Interval(Whole(x0), Whole(x1)),
                     y |-> Interval(Whole(y0), Whole(y1))]
  /\ inner = [width |-> Whole(w), height |-> Whole(h)]

---------------------------------------------------------------------------
(* C17 *)

\* each rendered point has the fields of the point in its place and, besides
\* them, screenX, screenY and color
RenderedKeepsFields ==
  pc = "rendered" =>
    /\ Len(rendered) = Len(points)
    /\ points = <<>> => rendered = <<>>
    /\ \A i \in 1..Len(points) :
         /\ \A f \in DOMAIN points[i] :
              f \in DOMAIN rendered[i] /\ rendered[i][f] = points[i][f]
         /\ DOMAIN rendered[i] =
              DOMAIN points[i] \cup {"screenX", "screenY", "color"}

\* C17: transformPointsToScreen returns one rendered point per input point,
\* in input order; each has the x, y, category, label, file and entry of its
\* input point and, besides these, only screenX, screenY and color; the empty
\* list gives the empty list; and the call leaves the input list as it was.
C17_PointsPreserved ==
  /\ []RenderedKeepsFields
  /\ [][TransformPointsToScreenCall => points' = points]_vars

\* three points, the second without category, have been transformed in order
C17_Witness ==
  /\ pc = "rendered"
  /\ Len(points) = 3 /\ Len(rendered) = 3
  /\ points[1].label /= points[2].label
  /\ points[2].category = NULL /\ points[3].category /= NULL
  /\ \A i \in 1..3 : rendered[i].label = points[i].label

---------------------------------------------------------------------------
(* C18 *)

\* the count generateTicks has worked with
CountUsed ==
  IF tickCount = NULL THEN DefaultTickCount ELSE tickCount[1]

\* the step generateTicks has worked with
StepUsed ==
  Div(Sub(tickBounds.max, tickBounds.min), Whole(CountUsed - 1))

\* generateTicks({min, max}, n) has returned
TicksReturned(min, max, n) ==
  /\ pc = "ticks"
  /\ tickBounds = Interval(Whole(min), Whole(max))
  /\ tickCount = Some(n)

\* the list of the whole numbers given
Wholes(list) ==
  [i \in 1..Len(list) |-> Whole(list[i])]

---------------------------------------------------------------------------
(* C19 *)

\* the charts the container of the view shows
ChartsShown ==
  {containerEl[i] : i \in {j \in 1..Len(containerEl) :
                             containerEl[j].tag = "svg"}}

\* the groups of class class in the main group of a chart
GroupsOf(chart, class) ==
  {chart.children[i] : i \in {j \in 1..Len(chart.children) :
                                chart.children[j].class = class}}

\* the elements of class class in a group
ElementsOf(group, class) ==
  {group.children[i] : i \in {j \in 1..Len(group.children) :
                                group.children[j].class = class}}

\* the screen positions of the vertical and of the horizontal grid lines
GridXPositions(chart) ==
  {l.x1 : l \in {g \in UNION {ElementsOf(group, "scatter-grid-line") :
                      group \in GroupsOf(chart, "scatter-grid")} :
                  g.x1 = g.x2}}

GridYPositions(chart) ==
  {l.y1 : l \in {g \in UNION {ElementsOf(group, "scatter-grid-line") :
                      group \in GroupsOf(chart, "scatter-grid")} :
                  g.y1 = g.y2}}

\* the screen positions of the tick marks of the X and of the Y axis
TickXPositions(chart) ==
  {l.x1 : l \in UNION {ElementsOf(group, "scatter-tick") :
                  group \in GroupsOf(chart, "scatter-axis scatter-axis-x")}}

TickYPositions(chart) ==
  {l.y1 : l \in UNION {ElementsOf(group, "scatter-tick") :
                  group \in GroupsOf(chart, "scatter-axis scatter-axis-y")}}

\* C19: in every chart that createChartSvg has built for the view, the grid
\* lines and the tick marks are aligned: the chart has its grid, the
\* positions of the vertical grid lines are the positions of the tick marks
\* of the X axis, and the positions of the horizontal grid lines are those
\* of the tick marks of the Y axis.
C19_GridAlignedWithTicks ==
  \A chart \in ChartsShown :
    /\ GroupsOf(chart, "scatter-grid") /= {}
    /\ GridXPositions(chart) = TickXPositions(chart)
    /\ GridYPositions(chart) = TickYPositions(chart)

\* a chart is shown whose grid has DefaultTickCount different positions on
\* each axis, the first and the last being the ends of the inner plot
C19_Witness ==
  \E chart \in ChartsShown :
    /\ Cardinality(GridXPositions(chart)) = DefaultTickCount
    /\ Cardinality(GridYPositions(chart)) = DefaultTickCount
    /\ Cardinality(TickXPositions(chart)) = DefaultTickCount
    /\ Whole(0) \in GridXPositions(chart)
    /\ CalculateInnerDimensions(viewport).width \in GridXPositions(chart)
    /\ CalculateInnerDimensions(viewport).height \in GridYPositions(chart)

---------------------------------------------------------------------------
(* C20 *)

\* a field of the view configuration is unset: absent, not a string, or the
\* empty string
Unset(v) ==
  v.type /= "string" \/ v.str = <<>>

\* a cycle of onDataUpdated has run with the X or the Y field unset
AxisUnsetCycle ==
  /\ calls /= <<>>
  /\ Unset(viewConfig.xAxis) \/ Unset(viewConfig.yAxis)

\* the container shows the configure-axes empty state and nothing else, and
\* the cycle has neither flattened nor extracted
ShowsConfigureAxes ==
  /\ Len(containerEl) = 1
  /\ containerEl[1].tag = "div"
  /\ containerEl[1].class = "scatter-empty-state"
  /\ containerEl[1].children[2].content = STR_ConfigureAxes
  /\ \A i \in 1..Len(calls) :
       calls[i] \notin {"flattenGroupedData", "extractDataFromEntries",
                        "calculatePlotBounds", "renderChart"}
  /\ calls[Len(calls)] = "renderEmptyState"
  /\ ChartsShown = {}
  /\ cleanup = NULL

\* C20: when the X or the Y field of the view configuration is unset, a cycle
\* of onDataUpdated ends with the configure-axes empty state as the only
\* child of the container, having called neither flattenGroupedData nor
\* extractDataFromEntries; the container has no chart and no skip warning, no
\* cleanup function is kept, and the cycle attaches no listener and caches
\* no rendered points.
C20_UnsetAxisShortCircuits ==
  /\ [](AxisUnsetCycle => ShowsConfigureAxes)
  /\ [][AxisUnsetCycle' => /\ listeners' \subseteq listeners
                           /\ renderedPoints' = renderedPoints
                           /\ viewport' = viewport]_vars

\* the Y field is the empty string while X is set and the data have
\* plottable entries; an earlier cycle had drawn a chart, whose listeners are
\* gone
C20_Witness ==
  /\ AxisUnsetCycle
  /\ viewConfig.xAxis = ConfigString(ID_X)
  /\ viewConfig.yAxis = ConfigString(<<>>)
  /\ Len(FlattenGroupedData(groupedData)) = 2
  /\ renderedPoints /= <<>>
  /\ listeners = {}
  /\ ShowsConfigureAxes

---------------------------------------------------------------------------
(* C21 *)

\* a cycle of onDataUpdated has run with both axes configured
AxesSetCycle ==
  /\ calls /= <<>>
  /\ ~Unset(viewConfig.xAxis) /\ ~Unset(viewConfig.yAxis)

\* the extraction result of the host's data under the host's configuration
ExtractionOfHost ==
  ExtractDataFromEntries(FlattenGroupedData(groupedData),
                         ReadConfig(viewConfig)).value

\* the children of the container with the given tag and class
ChildrenOf(tag, class) ==
  {containerEl[i] : i \in {j \in 1..Len(containerEl) :
                             /\ containerEl[j].tag = tag
                             /\ containerEl[j].class = class}}

\* the container shows one empty state, with this message, and nothing else
ShowsOnlyEmptyState(message) ==
  /\ Len(containerEl) = 1
  /\ containerEl[1].tag = "div"
  /\ containerEl[1].class = "scatter-empty-state"
  /\ containerEl[1].children[2].content = message

\* C21: with both axes configured, what the container shows after a cycle
\* follows from the extraction result.  No point and nothing skipped: the
\* empty state 'No notes match the current filters.'.  No point and N > 0
\* skipped: an empty state whose message says that N notes (1 note) were
\* skipped.  At least one point: the chart as first child, and a skipped
\* warning exactly when entries were skipped, which then begins with their
\* number.
C21_OutcomeFollowsExtraction ==
  AxesSetCycle =>
    LET ex == ExtractionOfHost
        n  == Len(ex.skipped)
    IN  /\ (Len(ex.points) = 0 /\ n = 0) => ShowsOnlyEmptyState(STR_NoNotesMatch)
        /\ (Len(ex.points) = 0 /\ n > 0) =>
             /\ Len(containerEl) = 1
             /\ containerEl[1].class = "scatter-empty-state"
             /\ Contains(containerEl[1].children[2].content,
                         <<" ">> \o NatToString(n) \o STR_Note
                         \o (IF n = 1 THEN <<>> ELSE <<"s">>)
                         \o <<" ","s","k","i","p","p","e","d">>)
        /\ Len(ex.points) > 0 =>
             /\ containerEl[1].tag = "svg"
             /\ Cardinality(ChartsShown) = 1
             /\ ChildrenOf("div", "scatter-empty-state") = {}
             /\ Len(containerEl) = (IF n > 0 THEN 2 ELSE 1)
             /\ n > 0 =>
                  /\ containerEl[2].class = "scatter-skipped-warning"
                  /\ SubSeq(containerEl[2].content, 1,
                            Len(NatToString(n)) + Len(STR_Note))
                       = NatToString(n) \o STR_Note

\* a chart is shown with the warning of one skipped entry, two entries
\* being plotted
C21_Witness ==
  /\ AxesSetCycle
  /\ Len(ExtractionOfHost.points) = 2
  /\ Len(ExtractionOfHost.skipped) = 1
  /\ Len(containerEl) = 2
  /\ containerEl[1].tag = "svg"
  /\ containerEl[2].class = "scatter-skipped-warning"

---------------------------------------------------------------------------
(* C22: the identity of a rendered point                                   *)

\* the circles of the charts in the container, in the order of the points
\* layer
CirclesShown ==
  UNION {{<< i, g.children[i] >> : i \in 1..Len(g.children)} :
           g \in UNION {GroupsOf(chart, "scatter-points") :
                          chart \in ChartsShown}}

\* C22: after a cycle that rendered a chart, the circle created for the i-th
\* rendered point, looked up by its data-file-path attribute in the index
\* that createPointIndex built over the rendered points of the cycle, gives
\* the i-th rendered point itself; every rendered point has its circle
C22_CircleLooksUpItsPoint ==
  ChartsShown /= {} =>
    /\ eventConfig /= NULL
    /\ {c[1] : c \in CirclesShown} = 1..Len(renderedPoints)
    /\ \A c \in CirclesShown :
         FindPointFromElement(c[2], eventConfig[1].pointIndex)
           = Some(renderedPoints[c[1]])

\* a chart of two points of different labels and files, the second circle
\* giving the second point
C22_Witness ==
  /\ ChartsShown /= {}
  /\ Len(renderedPoints) = 2
  /\ renderedPoints[1].file.path /= renderedPoints[2].file.path
  /\ renderedPoints[1].label /= renderedPoints[2].label
  /\ \E c \in CirclesShown :
       /\ c[1] = 2
       /\ FindPointFromElement(c[2], eventConfig[1].pointIndex)
            = Some(renderedPoints[2])

---------------------------------------------------------------------------
(* C26: a cycle supersedes the one before                                  *)

\* the cached rendered points are the points of the circles in the container
RenderedPointsAreShown ==
  /\ {c[1] : c \in CirclesShown} = 1..Len(renderedPoints)
  /\ \A c \in CirclesShown :
       /\ c[2].dataFilePath = renderedPoints[c[1]].file.path
       /\ c[2].cx = renderedPoints[c[1]].screenX
       /\ c[2].cy = renderedPoints[c[1]].screenY

\* C26: after every completed onDataUpdated, a cycle that ended in an empty
\* state included, the view holds nothing of an earlier cycle: the container
\* shows the output of this cycle only (one chart with at most a warning, or
\* one empty state, or nothing), the active cleanup is that of the chart of
\* this cycle, and the cached renderedPoints are the points this cycle
\* rendered (none when it rendered no chart)
C26_CycleSupersedesPrevious ==
  calls /= <<>> =>
    /\ Len(containerEl) <= 2
    /\ Cardinality(ChartsShown) <= 1
    /\ ChartsShown /= {} => ChildrenOf("div", "scatter-empty-state") = {}
    /\ cleanup /= NULL <=> ChartsShown /= {}
    /\ \A l \in listeners : l.target = "svg"
    /\ RenderedPointsAreShown

---------------------------------------------------------------------------
(* C23: the resize notifications are debounced                             *)

\* C23: at most one resize timer is pending at any time; while the view is
\* loaded, less than ResizeDelay ms after the last resize notification the
\* timer set by that notification is the one pending, due ResizeDelay ms
\* after the notification, and no timer has called onDataUpdated since; at
\* ResizeDelay ms either that timer is due or it has made the one call of
\* onDataUpdated and no timer is left; so a burst of notifications makes one
\* call, ResizeDelay ms after its last notification
C23_ResizeDebounced ==
  /\ Cardinality(timers) <= 1
  /\ sinceResize = NULL => timers = {}
  /\ (sinceResize /= NULL /\ pc = "idle") =>
       /\ sinceResize.ms <= ResizeDelay
       /\ sinceResize.calls <= 1
       /\ sinceResize.ms < ResizeDelay =>
            /\ sinceResize.calls = 0
            /\ timers = {[id |-> resizeTimeout[1],
                          remaining |-> ResizeDelay - sinceResize.ms]}
       /\ sinceResize.ms = ResizeDelay =>
            \/ /\ sinceResize.calls = 0
               /\ timers = {[id |-> resizeTimeout[1], remaining |-> 0]}
            \/ /\ sinceResize.calls = 1
               /\ timers = {}

\* the last notification of a burst came while a timer was pending, and
\* ResizeDelay ms later the one call has rendered a chart for the new size
C23_Witness ==
  /\ pc = "idle"
  /\ sinceResize /= NULL
  /\ sinceResize.burst
  /\ sinceResize.ms = ResizeDelay
  /\ sinceResize.calls = 1
  /\ timers = {}
  /\ ChartsShown /= {}
  /\ containerRect.width = Whole(900)
  /\ viewport.width = Whole(900)

---------------------------------------------------------------------------
(* C24: the listeners are released                                         *)

\* C24: over the calls of onDataUpdated by the host and by the resize timer
\* and the unloading of the view, the cleanup of the previous cycle has run
\* when the listeners of a new chart are attached: no listener is left on an
\* svg that was removed from the container, the listeners attached are at
\* most the point and zoom listeners of the chart in the container, each
\* once, they are attached exactly while the cleanup of that chart is held,
\* and none is attached once the view is unloaded
C24_ListenersReleased ==
  /\ \A l \in listeners : l.target = "svg"
  /\ listeners \subseteq ListenersOn("svg", PointEventTypes \cup WheelEventTypes)
  /\ listeners /= {} => (ChartsShown /= {} /\ cleanup /= NULL /\ pc = "idle")
  /\ (ChartsShown /= {} /\ pc = "idle") =>
       (/\ cleanup /= NULL
        /\ listeners = ListenersOn("svg", PointEventTypes \cup WheelEventTypes))
  /\ pc = "unloaded" => (listeners = {} /\ cleanup = NULL)

\* the view was unloaded while it showed a chart, after a call of
\* onDataUpdated by the resize timer, and no listener is attached
C24_Witness ==
  /\ pc = "unloaded"
  /\ ChartsShown /= {}
  /\ sinceResize /= NULL
  /\ sinceResize.calls = 1
  /\ listeners = {}

---------------------------------------------------------------------------
(* C25: nothing is recomputed after the view is unloaded                   *)

\* C25: once the view is unloaded (onunload and the function registered in
\* setupResizeObserver have run) the observer is disconnected, no timer is
\* pending, not the one that was pending at the unload either, and no
\* listener is attached; from then on no notification is handled, no timer
\* calls onDataUpdated, the container stays as it is and no listener is
\* attached again
C25_NoRecomputeAfterUnload ==
  [][/\ pc' = "unloaded" =>
          (/\ ~observing'
           /\ timers' = {}
           /\ listeners' = {}
           /\ cleanup' = NULL)
     /\ pc = "unloaded" =>
          (/\ pc' = "unloaded"
           /\ sinceResize' = sinceResize
           /\ calls' = calls
           /\ containerEl' = containerEl
           /\ listeners' = listeners)]_vars

\* the view was unloaded less than ResizeDelay ms after a resize
\* notification, while the timer of the notification was pending: the timer
\* is gone
C25_Witness ==
  /\ pc = "unloaded"
  /\ resizeTimeout /= NULL
  /\ sinceResize /= NULL
  /\ sinceResize.ms < ResizeDelay
  /\ sinceResize.calls = 0
  /\ timers = {}
  /\ ~observing

---------------------------------------------------------------------------
(* C27: a click opens the note of the point                                *)

\* the rendered points whose circle in the chart shown is the element
PointsOfCircle(element) ==
  {renderedPoints[c[1]] : c \in {d \in CirclesShown : d[2] = element}}

\* C27: when a click arrives while the click listener is attached, on the
\* circle of a rendered point and with the left (0) or the middle (1) button,
\* openLinkText is called once, with the path of the file of that point, an
\* empty source path and what isModEvent gives, and the event has its default
\* prevented and its propagation stopped; with another button, on an element
\* that is not a point element, or on a point element whose path is not in
\* the index or that has no path, nothing is opened and the event is left as
\* it came; a click changes nothing in the container
C27_ClickOpensNote ==
  [][(/\ lastEvent' /= lastEvent
      /\ lastEvent' /= NULL
      /\ lastEvent'[1].event.type = "click")
     =>
     /\ containerEl' = containerEl
     /\ activeTooltip' = activeTooltip
     /\ lastEvent'[1].triggered = << >>
     /\ IF /\ Listening("click")
           /\ PointsOfCircle(lastEvent'[1].event.target) /= {}
           /\ lastEvent'[1].event.button \in {0, 1}
          THEN
            /\ \E p \in PointsOfCircle(lastEvent'[1].event.target) :
                 lastEvent'[1].opened =
                   << [linktext |-> p.file.path, sourcePath |-> "",
                       newLeaf |-> lastEvent'[1].event.modEvent] >>
            /\ lastEvent'[1].event.defaultPrevented
            /\ lastEvent'[1].event.propagationStopped
          ELSE
            /\ lastEvent'[1].opened = << >>
            /\ ~lastEvent'[1].event.defaultPrevented
            /\ ~lastEvent'[1].event.propagationStopped]_vars

\* a click with the middle button on the circle of the second note has
\* opened that note, in a new leaf
C27_Witness ==
  /\ lastEvent /= NULL
  /\ lastEvent[1].event.type = "click"
  /\ lastEvent[1].event.button = 1
  /\ lastEvent[1].event.modEvent
  /\ lastEvent[1].event.target \in CircleTargets
  /\ lastEvent[1].event.target.dataFilePath = Files[2].path
  /\ lastEvent[1].opened = << [linktext |-> Files[2].path, sourcePath |-> "",
                               newLeaf |-> TRUE] >>
  /\ lastEvent[1].event.defaultPrevented
  /\ lastEvent[1].event.propagationStopped

---------------------------------------------------------------------------
(* C29: the tooltip                                                        *)

\* the tooltip elements among the children of the container
TooltipsIn(children) ==
  SelectSeq(children, LAMBDA el : el.class = "scatter-tooltip")

\* the tooltip describes the point: its label as title, its X and Y under the
\* labels of the axes, and its category when it has one
Describes(tooltip, p) ==
  /\ tooltip.title = p.label
  /\ tooltip.values[1] = << PropertyIdToLabel(ReadConfig(viewConfig).xAxis), p.x >>
  /\ tooltip.values[2] = << PropertyIdToLabel(ReadConfig(viewConfig).yAxis), p.y >>
  /\ IF p.category = NULL THEN Len(tooltip.values) = 2
     ELSE /\ Len(tooltip.values) = 3
          /\ tooltip.values[3][2] = p.category[1]

\* the step handles a mouse event of the type
EventStep(type) ==
  /\ lastEvent' /= lastEvent
  /\ lastEvent' /= NULL
  /\ lastEvent'[1].event.type = type

\* C29: the container holds at most one tooltip element at any time, the one
\* the listeners hold as active; a mouseenter on the circle of a rendered
\* point, the listener being attached, leaves exactly the tooltip that
\* describes that point, whatever tooltip was shown before; a mouseleave on a
\* point element leaves none; the cleanup (in a new cycle, after which no
\* event has been handled yet, or in the unload) leaves none; and no other
\* step changes the tooltip, so that a tooltip shown describes the indexed
\* point entered last
C29_OneTooltipOfLastPoint ==
  [][/\ Len(TooltipsIn(containerEl')) <= 1
     /\ TooltipsIn(containerEl') =
          (IF activeTooltip' = NULL THEN << >> ELSE << activeTooltip'[1] >>)
     /\ IF /\ EventStep("mouseenter")
           /\ Listening("mouseenter")
           /\ PointsOfCircle(lastEvent'[1].event.target) /= {}
          THEN /\ Len(TooltipsIn(containerEl')) = 1
               /\ \E p \in PointsOfCircle(lastEvent'[1].event.target) :
                    Describes(TooltipsIn(containerEl')[1], p)
               /\ lastEvent'[1].triggered /= << >>
               /\ lastEvent'[1].triggered[1].linktext
                    = lastEvent'[1].event.target.dataFilePath
        ELSE IF /\ EventStep("mouseleave")
                /\ Listening("mouseleave")
                /\ IsPointElement(lastEvent'[1].event.target)
          THEN TooltipsIn(containerEl') = << >>
        ELSE IF lastEvent' = NULL \/ pc' = "unloaded"
          THEN TooltipsIn(containerEl') = << >>
        ELSE TooltipsIn(containerEl') = TooltipsIn(containerEl)]_vars

\* the pointer entered the circle of the first note and then that of the
\* second: the first circle still has the hover radius, and the one tooltip
\* in the container describes the second note
C29_Witness ==
  /\ lastEvent /= NULL
  /\ lastEvent[1].event.type = "mouseenter"
  /\ Len(renderedPoints) = 2
  /\ Len(TooltipsIn(containerEl)) = 1
  /\ activeTooltip /= NULL
  /\ Describes(activeTooltip[1], renderedPoints[2])
  /\ ~Describes(activeTooltip[1], renderedPoints[1])
  /\ \A c \in CirclesShown : c[2].r = DEFAULT_POINT_CONFIG.hoverRadius

---------------------------------------------------------------------------
(* C30: which values are empty                                             *)

\* the value is one of the falsy values of JavaScript that a property lookup
\* may give: 0, NaN, false, the empty string
Falsy(f) ==
  \/ f.t = "number" /\ (f.num = Whole(0) \/ IsNaN(f.num))
  \/ f.t = "boolean" /\ ~f.bool
  \/ f.t = "string" /\ f.str = << >>

\* the value carries an isEmpty method
HasIsEmpty(f) ==
  f.t = "object" /\ f.hasIsEmpty

\* C30: extractNumericValue on a property whose lookup does not throw: when
\* the value carries no isEmpty method, the result is the Failure 'Property
\* "<id>" is empty' exactly when the value is null, undefined or falsy, so
\* for the raw number 0 as for false and ''; when it carries one, exactly
\* when isEmpty() returns true; and extractDataFromEntries skips the entry of
\* a falsy X with that reason and makes no point of it
C30_EmptyIsNullOrFalsy ==
  /\ (pc = "numeric" /\ entry.fields[propertyId[1]].t /= "throws") =>
       /\ numResult.type = "normal"
       /\ ~HasIsEmpty(entry.fields[propertyId[1]]) =>
            (numResult.value = Failure(EmptyReason(propertyId[1]))
               <=> \/ entry.fields[propertyId[1]].t \in {"null", "undefined"}
                   \/ Falsy(entry.fields[propertyId[1]]))
       /\ HasIsEmpty(entry.fields[propertyId[1]]) =>
            (numResult.value = Failure(EmptyReason(propertyId[1]))
               <=> entry.fields[propertyId[1]].isEmpty = "true")
       /\ entry.fields[propertyId[1]]
            \in {RawNumber(Whole(0)), RawBoolean(FALSE), RawString(<< >>)} =>
            numResult.value.reason
              = <<"P","r","o","p","e","r","t","y"," ","\"">> \o propertyId[1]
                  \o <<"\""," ","i","s"," ","e","m","p","t","y">>
  /\ (pc = "extracted" /\ Falsy(entry.fields[ID_X])) =>
       /\ extraction.type = "normal"
       /\ extraction.value.points = << >>
       /\ extraction.value.skipped
            = << SkippedEntry(entry.file, EmptyReason(ID_X)) >>

\* the entry whose X is the raw number 0 is skipped as empty
C30_Witness ==
  /\ pc = "extracted"
  /\ entry.fields[ID_X] = RawNumber(Whole(0))
  /\ extraction.value.points = << >>
  /\ Len(extraction.value.skipped) = 1
  /\ extraction.value.skipped[1].reason = EmptyReason(ID_X)

---------------------------------------------------------------------------
(* C28: the rendered points lie in the plot area                           *)

\* the inner dimensions of the viewport are positive and every rendered
\* point has 0 <= screenX <= inner width and 0 <= screenY <= inner height
PointsInPlotArea ==
  /\ Less(Whole(0), CalculateInnerDimensions(viewport).width)
  /\ Less(Whole(0), CalculateInnerDimensions(viewport).height)
  /\ \A i \in 1..Len(renderedPoints) :
       /\ LessEq(Whole(0), renderedPoints[i].screenX)
       /\ LessEq(renderedPoints[i].screenX,
                 CalculateInnerDimensions(viewport).width)
       /\ LessEq(Whole(0), renderedPoints[i].screenY)
       /\ LessEq(renderedPoints[i].screenY,
                 CalculateInnerDimensions(viewport).height)

\* C28 as claimed: in every chart the view renders, with the bounds of
\* calculatePlotBounds over the points under the default padding and the
\* viewport of updateViewportFromContainer, the inner dimensions are
\* positive and every rendered point lies inside the plot area
C28_PointsInsidePlotArea ==
  pc = "rendered" => PointsInPlotArea

\* C28 as amended: the inner dimensions are positive in every case, and
\* every rendered point lies inside the plot area when, on both axes, the
\* span max - min of the bounds that calculatePlotBounds gives is finite
C28_PointsInsideFiniteSpan ==
  pc = "rendered" =>
    /\ Less(Whole(0), CalculateInnerDimensions(viewport).width)
    /\ Less(Whole(0), CalculateInnerDimensions(viewport).height)
    /\ Len(renderedPoints) = Len(points)
    /\ ( /\ IsFinite(Sub(plotBounds[1].x.max, plotBounds[1].x.min))
         /\ IsFinite(Sub(plotBounds[1].y.max, plotBounds[1].y.min)) )
         => PointsInPlotArea

\* two points, at -50 and at 2^70, rendered at different places inside the
\* plot area of the default viewport, the container not being laid out
C28_Witness ==
  /\ pc = "rendered"
  /\ Len(renderedPoints) = 2
  /\ renderedPoints[1].x = Whole(-50)
  /\ renderedPoints[2].x = Scaled(1, 1, 70)
  /\ containerRect.width = Whole(0)
  /\ CalculateInnerDimensions(viewport).width = Whole(730)
  /\ IsFinite(Sub(plotBounds[1].x.max, plotBounds[1].x.min))
  /\ PointsInPlotArea
  /\ Less(renderedPoints[1].screenX, renderedPoints[2].screenX)

====
